---- MODULE Spec2Model ----
(***************************************************************************)
(* The search core of paperSearcher (src/website.py, src/config.py): the   *)
(* keyword parser, the validators, the predicate compiler, the query       *)
(* executor and the /search handler that chains them.                      *)
(*                                                                         *)
(* A Python str is a sequence of one-character strings.  Characters that   *)
(* have no ASCII spelling carry a name: "sup2" is U+00B2 (superscript      *)
(* two), "zh" is U+4E2D (a CJK ideograph).                                 *)
(***************************************************************************)
EXTENDS Integers, Sequences, FiniteSets, TLC

VARIABLES
    q,            \* request parameter q (get_info) / argument of parse_keywords
    source,       \* request parameter s: [present, s]
    year,         \* request parameter y: [present, s]
    offset,       \* request parameter offset
    limit,        \* request parameter limit
    pc,           \* position in the running function
    scan,         \* locals of parse_keywords' loop: [i, tmp, keywords, operator]
    error,        \* get_info: result of validate_keyword
    pagination,   \* get_info: result of validate_pagination
    source_list,  \* get_info / build_search_query: venue list
    year_list,    \* get_info / build_search_query: year list
    keywords,     \* get_info / build_search_query: term list
    operators,    \* get_info / build_search_query: operator list
    where_clause, \* expression text returned by build_search_query
    params,       \* bound values returned by build_search_query
    open_conns,   \* the sqlite3 connection objects that are open
    calls,        \* the functions invoked so far, in order
    response,     \* what the running function returned or raised
    db,           \* the database file: [fault, papers]
    paper_id,     \* get_abs / get_paper_abstract: the parsed id
    previous,     \* what the same call returned the time before
    peer,         \* a second /search request in flight: its position and locals
    ingest,       \* a crawler run saving papers: its position and locals
    total         \* search_papers: the count read by the first statement

vars == <<q, source, year, offset, limit, pc, scan, error, pagination,
          source_list, year_list, keywords, operators, where_clause, params,
          open_conns, calls, response, db, paper_id, previous, peer, ingest,
          total>>

(***************************************************************************)
(* Bounds of the model.                                                    *)
(***************************************************************************)
ParseMaxLen == 4    \* parse_keywords: every string up to this length
KwMaxLen == 2       \* validate_keyword: every string up to this length
PadSlack == 1       \* validate_keyword: long strings within this of the cap
NumMaxLen == 3      \* offset / limit: every string up to this length
SrcMaxLen == 4      \* s: every string up to this length
YearMaxTokens == 2  \* y: comma-joined lists of up to this many tokens
BuildMaxTerms == 2  \* build_search_query: term lists up to this length
BuildMaxOps == 2    \* build_search_query: operator lists up to this length
BuildMaxFilter == 1 \* build_search_query: venue / year lists up to this length

(***************************************************************************)
(* Python str primitives.                                                  *)
(***************************************************************************)
LowerAlpha == <<"a","b","c","d","e","f","g","h","i","j","k","l","m","n","o","p","q","r","s","t","u","v","w","x","y","z">>
UpperAlpha == <<"A","B","C","D","E","F","G","H","I","J","K","L","M","N","O","P","Q","R","S","T","U","V","W","X","Y","Z">>
AsciiDigits == <<"0","1","2","3","4","5","6","7","8","9">>

Range(s) == {s[k] : k \in DOMAIN s}

\* str.isspace() of one character
isspace(c) == c \in {" ", "\t", "\n"}

\* the decimal digits int() reads
IsDecimal(c) == c \in Range(AsciiDigits)

\* str.isdigit() of one character: the decimal digits and the digit-valued
\* characters int() does not read, such as U+00B2
isdigit_char(c) == IsDecimal(c) \/ c = "sup2"

\* the regular expression class \w of one character
IsWord(c) ==
    \/ c \in Range(LowerAlpha) \cup Range(UpperAlpha)
    \/ isdigit_char(c)
    \/ c = "_"
    \/ c = "zh"

\* the class \u4e00-\u9fff
IsCJK(c) == c = "zh"

lower_char(c) ==
    IF c \in Range(UpperAlpha)
    THEN LowerAlpha[CHOOSE k \in DOMAIN UpperAlpha : UpperAlpha[k] = c]
    ELSE c

upper_char(c) ==
    IF c \in Range(LowerAlpha)
    THEN UpperAlpha[CHOOSE k \in DOMAIN LowerAlpha : LowerAlpha[k] = c]
    ELSE c

\* str.lower()
lower(s) == [k \in DOMAIN s |-> lower_char(s[k])]

\* str.upper()
upper(s) == [k \in DOMAIN s |-> upper_char(s[k])]

RECURSIVE lstrip(_)
lstrip(s) == IF s # <<>> /\ isspace(Head(s)) THEN lstrip(Tail(s)) ELSE s

RECURSIVE rstrip(_)
rstrip(s) ==
    IF s # <<>> /\ isspace(s[Len(s)]) THEN rstrip(SubSeq(s, 1, Len(s) - 1)) ELSE s

\* str.strip()
strip(s) == rstrip(lstrip(s))

\* str.split(sep) for a one-character sep: always at least one segment
RECURSIVE split(_, _)
split(s, sep) ==
    IF \E k \in DOMAIN s : s[k] = sep
    THEN LET k == CHOOSE j \in DOMAIN s :
                      s[j] = sep /\ \A m \in 1..(j - 1) : s[m] # sep
         IN <<SubSeq(s, 1, k - 1)>> \o split(SubSeq(s, k + 1, Len(s)), sep)
    ELSE <<s>>

\* sep.join(parts)
RECURSIVE join(_, _)
join(parts, sep) ==
    IF parts = <<>> THEN <<>>
    ELSE IF Len(parts) = 1 THEN parts[1]
    ELSE parts[1] \o sep \o join(Tail(parts), sep)

\* str.isdigit(): non-empty and every character a digit
isdigit(s) == s # <<>> /\ \A k \in DOMAIN s : isdigit_char(s[k])

DigitValue(c) == (CHOOSE k \in DOMAIN AsciiDigits : AsciiDigits[k] = c) - 1

\* the digits of an int() literal once blanks and the sign are removed:
\* decimal digits, single underscores only between digits
IntBody(s) ==
    LET t == strip(s)
    IN IF t # <<>> /\ t[1] \in {"+", "-"} THEN Tail(t) ELSE t

\* whether int(s) returns (otherwise it raises ValueError)
IntParses(s) ==
    LET b == IntBody(s)
    IN /\ b # <<>>
       /\ \A k \in DOMAIN b : IsDecimal(b[k]) \/ b[k] = "_"
       /\ b[1] # "_" /\ b[Len(b)] # "_"
       /\ \A k \in 1..(Len(b) - 1) : ~(b[k] = "_" /\ b[k + 1] = "_")

RECURSIVE DigitsValue(_, _)
DigitsValue(b, acc) ==
    IF b = <<>> THEN acc
    ELSE IF Head(b) = "_" THEN DigitsValue(Tail(b), acc)
    ELSE DigitsValue(Tail(b), acc * 10 + DigitValue(Head(b)))

\* A Python int is unbounded.  Magnitudes below 10^9 are kept exact; the
\* larger ones are collapsed, order preserved, onto two values: Wide for a
\* magnitude SQLite's 64-bit INTEGER holds, BeyondInt64 for one it does not.
\* max, min and the comparisons of the code commute with this.
Wide == 1000000000
BeyondInt64 == 2000000000

\* 2^63 - 1 and 2^63
INT64_MAX == <<"9","2","2","3","3","7","2","0","3","6","8","5","4","7","7","5","8","0","7">>
INT64_MIN_MAGNITUDE == <<"9","2","2","3","3","7","2","0","3","6","8","5","4","7","7","5","8","0","8">>

\* the digits of a literal body without underscores and leading zeros
SignificantDigits(b) ==
    LET d == SelectSeq(b, LAMBDA c : c # "_")
        nz == {k \in DOMAIN d : d[k] # "0"}
    IN IF nz = {} THEN <<>>
       ELSE SubSeq(d, CHOOSE k \in nz : \A j \in nz : k <= j, Len(d))

\* d <= m for digit strings without leading zeros
DigitsLeq(d, m) ==
    \/ Len(d) < Len(m)
    \/ /\ Len(d) = Len(m)
       /\ \/ d = m
          \/ \E k \in DOMAIN d :
                /\ DigitValue(d[k]) < DigitValue(m[k])
                /\ \A j \in 1..(k - 1) : d[j] = m[j]

\* int(s) where it returns
int(s) ==
    LET t == strip(s)
        neg == t # <<>> /\ t[1] = "-"
        d == SignificantDigits(IntBody(s))
        v == IF Len(d) <= 9 THEN DigitsValue(d, 0)
             ELSE IF DigitsLeq(d, IF neg THEN INT64_MIN_MAGNITUDE ELSE INT64_MAX)
             THEN Wide
             ELSE BeyondInt64
    IN IF neg THEN 0 - v ELSE v

\* whether sqlite3 can bind the int: it fits in 64 bits
FitsSqliteInteger(n) == n > 0 - BeyondInt64 /\ n < BeyondInt64

(***************************************************************************)
(* Python values: None, a list, a raised exception.                        *)
(***************************************************************************)
PyNone == [exc |-> "", none |-> TRUE, list |-> <<>>]
PyList(l) == [exc |-> "", none |-> FALSE, list |-> l]
PyRaise(e) == [exc |-> e, none |-> FALSE, list |-> <<>>]

\* truth value of an Optional[list]
Truthy(v) == v.exc = "" /\ ~v.none /\ v.list # <<>>

\* a request parameter: absent (request.args.get gives None) or a string
Absent == [present |-> FALSE, s |-> <<>>]
Given(s) == [present |-> TRUE, s |-> s]

(***************************************************************************)
(* src/config.py                                                           *)
(***************************************************************************)
ALLOWED_CONFERENCES == {
    <<"c","c","s">>, <<"s","p">>, <<"s","p","w">>,
    <<"u","s","s">>, <<"c","e","s","t">>, <<"f","o","c","i">>,
    <<"s","o","u","p","s">>, <<"w","o","o","t">>, <<"t","d","s","c">>,
    <<"t","i","f","s">>, <<"n","d","s","s">>, <<"a","c","s","a","c">>,
    <<"c","s","u","r">>, <<"c","o","m","s","u","r">>, <<"e","s","o","r","i","c","s">>,
    <<"c","s","f","w">>, <<"d","s","n">>, <<"c","o","m","p","s","e","c">>,
    <<"r","a","i","d">>, <<"j","c","s">>, <<"t","i","s","s","e","c">>,
    <<"s","r","d","s">>, <<"j","s","a","c">>, <<"t","m","c">>,
    <<"t","o","n">>, <<"s","i","g","c","o","m","m">>, <<"m","o","b","i","c","o","m">>,
    <<"i","n","f","o","c","o","m">>, <<"n","s","d","i">>, <<"w","w","w">> }

MIN_YEAR == 2016
MAX_YEAR == 2025
MAX_KEYWORD_LENGTH == 200
MAX_LIMIT == 100

(***************************************************************************)
(* parse_keywords                                                          *)
(***************************************************************************)
OP_AND == <<"a","n","d">>
OP_OR == <<"o","r">>

\* the locals before the loop
ScanInit == [i |-> 0, tmp |-> <<>>, keywords |-> <<>>, operator |-> <<>>]

\* the iteration recording an operator only when a term ends at the delimiter
ScanStepOperatorWithTerm(qs, st) ==
    LET atEnd == st.i = Len(qs)
        c == IF atEnd THEN "" ELSE qs[st.i + 1]
        finish_flag == atEnd \/ c = "+" \/ c = "|"
        operator1 ==
            IF ~atEnd /\ c = "+" THEN Append(st.operator, OP_AND)
            ELSE IF ~atEnd /\ c = "|" THEN Append(st.operator, OP_OR)
            ELSE st.operator
        tmp1 == IF finish_flag THEN st.tmp ELSE Append(st.tmp, c)
        tmp_str == strip(tmp1)
    IN [i |-> st.i + 1,
        tmp |-> IF finish_flag THEN <<>> ELSE tmp1,
        keywords |-> IF finish_flag /\ tmp_str # <<>>
                     THEN Append(st.keywords, tmp_str) ELSE st.keywords,
        operator |-> IF tmp_str # <<>> THEN operator1 ELSE st.operator]

\* the iteration without the strip() of the term
ScanStepUntrimmed(qs, st) ==
    LET atEnd == st.i = Len(qs)
        c == IF atEnd THEN "" ELSE qs[st.i + 1]
        finish_flag == atEnd \/ c = "+" \/ c = "|"
        operator1 ==
            IF ~atEnd /\ c = "+" THEN Append(st.operator, OP_AND)
            ELSE IF ~atEnd /\ c = "|" THEN Append(st.operator, OP_OR)
            ELSE st.operator
        tmp1 == IF finish_flag THEN st.tmp ELSE Append(st.tmp, c)
        tmp_str == tmp1
    IN [i |-> st.i + 1,
        tmp |-> IF finish_flag THEN <<>> ELSE tmp1,
        keywords |-> IF finish_flag /\ tmp_str # <<>>
                     THEN Append(st.keywords, tmp_str) ELSE st.keywords,
        operator |-> operator1]

\* the iteration with i += 1 inside the if finish_flag block
ScanStepStalling(qs, st) ==
    LET atEnd == st.i = Len(qs)
        c == IF atEnd THEN "" ELSE qs[st.i + 1]
        finish_flag == atEnd \/ c = "+" \/ c = "|"
        operator1 ==
            IF ~atEnd /\ c = "+" THEN Append(st.operator, OP_AND)
            ELSE IF ~atEnd /\ c = "|" THEN Append(st.operator, OP_OR)
            ELSE st.operator
        tmp1 == IF finish_flag THEN st.tmp ELSE Append(st.tmp, c)
        tmp_str == strip(tmp1)
    IN [i |-> IF finish_flag THEN st.i + 1 ELSE st.i,
        tmp |-> IF finish_flag THEN <<>> ELSE tmp1,
        keywords |-> IF finish_flag /\ tmp_str # <<>>
                     THEN Append(st.keywords, tmp_str) ELSE st.keywords,
        operator |-> operator1]

\* one iteration of the while loop at index st.i (0-based) of qs
ScanStep(qs, st) ==
    LET atEnd == st.i = Len(qs)
        c == IF atEnd THEN "" ELSE qs[st.i + 1]
        finish_flag == atEnd \/ c = "+" \/ c = "|"
        operator1 ==
            IF ~atEnd /\ c = "+" THEN Append(st.operator, OP_AND)
            ELSE IF ~atEnd /\ c = "|" THEN Append(st.operator, OP_OR)
            ELSE st.operator
        tmp1 == IF finish_flag THEN st.tmp ELSE Append(st.tmp, c)
        tmp_str == strip(tmp1)
    IN [i |-> st.i + 1,
        tmp |-> IF finish_flag THEN <<>> ELSE tmp1,
        keywords |-> IF finish_flag /\ tmp_str # <<>>
                     THEN Append(st.keywords, tmp_str) ELSE st.keywords,
        operator |-> operator1]

(***************************************************************************)
(* _build_like_conditions, build_search_query                              *)
(***************************************************************************)
\* a bound value: sqlite binds a str or an int
TextParam(s) == [kind |-> "text", text |-> s, int |-> 0]
IntParam(n) == [kind |-> "int", text |-> <<>>, int |-> n]

TITLE == <<"t","i","t","l","e">>
ABSTRACT == <<"a","b","s","t","r","a","c","t">>

\* the ancestor design: the term is concatenated into the expression text
LikeConditionInlined(kw, field_name) ==
    field_name \o <<" ","L","I","K","E"," ","'","%">> \o kw \o <<"%","'">>

\* f"{field_name} LIKE ?"
LikeCondition(kw, field_name) == field_name \o <<" ","L","I","K","E"," ","?">>

\* the term bound as it is, without the % on its two sides
LikeParamBare(kw) == TextParam(kw)

\* f"%{kw}%"
LikeParam(kw) == TextParam(<<"%">> \o kw \o <<"%">>)

\* the loop over range(len(operators)), from index k (1-based); it reads
\* conditions[i] and raises IndexError past the end of conditions, which
\* the caller decides before evaluating this
RECURSIVE JoinLoop(_, _, _)
JoinLoop(conditions, ops, k) ==
    IF k > Len(ops) THEN <<>>
    ELSE <<conditions[k], ops[k]>> \o JoinLoop(conditions, ops, k + 1)

\* _build_like_conditions without the 1=1 of an empty term list
_build_like_conditions_no_default(kws, ops, field_name) ==
    LET conditions == [k \in DOMAIN kws |-> LikeCondition(kws[k], field_name)]
        like_params == [k \in DOMAIN kws |-> LikeParam(kws[k])]
    IN IF Len(ops) > Len(conditions)
       THEN [exc |-> "IndexError", clause |-> <<>>, params |-> <<>>]
       ELSE LET clause_parts ==
                    JoinLoop(conditions, ops, 1)
                    \o (IF conditions # <<>>
                        THEN <<conditions[Len(conditions)]>> ELSE <<>>)
            IN [exc |-> "", clause |-> join(clause_parts, <<" ">>), params |-> like_params]

\* _build_like_conditions: [exc, clause, params]
_build_like_conditions(kws, ops, field_name) ==
    LET conditions == [k \in DOMAIN kws |-> LikeCondition(kws[k], field_name)]
        like_params == [k \in DOMAIN kws |-> LikeParam(kws[k])]
    IN IF Len(ops) > Len(conditions)
       THEN [exc |-> "IndexError", clause |-> <<>>, params |-> <<>>]
       ELSE LET clause_parts ==
                    JoinLoop(conditions, ops, 1)
                    \o (IF conditions # <<>>
                        THEN <<conditions[Len(conditions)]>> ELSE <<>>)
            IN [exc |-> "",
                clause |-> IF conditions # <<>>
                           THEN join(clause_parts, <<" ">>)
                           ELSE <<"1","=","1">>,
                params |-> like_params]

\* ",".join(["?" for _ in lst])
Placeholders(lst) == join([k \in DOMAIN lst |-> <<"?">>], <<",">>)

\* build_search_query: [exc, sql, params]
build_search_query(kws, ops, srcs, years) ==
    LET t == _build_like_conditions(kws, ops, TITLE)
        a == _build_like_conditions(kws, ops, ABSTRACT)
        sql0 == <<"(","(">> \o t.clause \o <<")"," ","O","R"," ","(">>
                    \o a.clause \o <<")",")">>
        sql1 == IF Truthy(srcs)
                THEN sql0
                     \o <<" ","A","N","D"," ","c","o","n","f","e","r","e","n","c","e"," ","I","N"," ","(">>
                     \o Placeholders(srcs.list) \o <<")">>
                ELSE sql0
        sql2 == IF Truthy(years)
                THEN sql1
                     \o <<" ","A","N","D"," ","y","e","a","r"," ","I","N"," ","(">>
                     \o Placeholders(years.list) \o <<")">>
                ELSE sql1
        all_params ==
            t.params \o a.params
            \o (IF Truthy(srcs)
                THEN [k \in DOMAIN srcs.list |-> TextParam(srcs.list[k])]
                ELSE <<>>)
            \o (IF Truthy(years)
                THEN [k \in DOMAIN years.list |-> IntParam(years.list[k])]
                ELSE <<>>)
    IN IF t.exc # "" THEN [exc |-> t.exc, sql |-> <<>>, params |-> <<>>]
       ELSE IF a.exc # "" THEN [exc |-> a.exc, sql |-> <<>>, params |-> <<>>]
       ELSE [exc |-> "", sql |-> sql2, params |-> all_params]

(***************************************************************************)
(* validate_keyword, validate_pagination, validate_conferences,            *)
(* validate_years                                                          *)
(***************************************************************************)
MsgKeywordFormat == "Invalid keyword format"
MsgKeywordLong == "Keyword too long"
MsgPagination == "Invalid offset/limit"
MsgConference == "Invalid conference"
MsgYear == "Invalid year format"
MsgPaperId == "Invalid paper id"

\* re.match(r'^[\w\s\+\|\u4e00-\u9fff]+$', q)
KeywordPatternMatches(qs) ==
    /\ qs # <<>>
    /\ \A k \in DOMAIN qs :
          IsWord(qs[k]) \/ isspace(qs[k]) \/ qs[k] \in {"+", "|"} \/ IsCJK(qs[k])

\* validate_keyword with the length check ahead of the character check
validate_keyword_length_first(qs) ==
    IF qs = <<>> THEN [none |-> TRUE, msg |-> ""]
    ELSE IF Len(qs) > MAX_KEYWORD_LENGTH THEN [none |-> FALSE, msg |-> MsgKeywordLong]
    ELSE IF ~KeywordPatternMatches(qs) THEN [none |-> FALSE, msg |-> MsgKeywordFormat]
    ELSE [none |-> TRUE, msg |-> ""]

\* validate_keyword with >= in place of > in the length check
validate_keyword_off_by_one(qs) ==
    IF qs = <<>> THEN [none |-> TRUE, msg |-> ""]
    ELSE IF ~KeywordPatternMatches(qs) THEN [none |-> FALSE, msg |-> MsgKeywordFormat]
    ELSE IF Len(qs) >= MAX_KEYWORD_LENGTH THEN [none |-> FALSE, msg |-> MsgKeywordLong]
    ELSE [none |-> TRUE, msg |-> ""]

\* validate_keyword: [none, msg]
validate_keyword(qs) ==
    IF qs = <<>> THEN [none |-> TRUE, msg |-> ""]
    ELSE IF ~KeywordPatternMatches(qs) THEN [none |-> FALSE, msg |-> MsgKeywordFormat]
    ELSE IF Len(qs) > MAX_KEYWORD_LENGTH THEN [none |-> FALSE, msg |-> MsgKeywordLong]
    ELSE [none |-> TRUE, msg |-> ""]

Max(a, b) == IF a >= b THEN a ELSE b
Min(a, b) == IF a <= b THEN a ELSE b

\* validate_pagination without the min() on limit
validate_pagination_unclamped(off, lim) ==
    IF IntParses(off) /\ IntParses(lim)
    THEN [none |-> FALSE, offset |-> Max(0, int(off)), limit |-> int(lim)]
    ELSE [none |-> TRUE, offset |-> 0, limit |-> 0]

\* validate_pagination: None, or the pair (offset_int, limit_int)
validate_pagination(off, lim) ==
    IF IntParses(off) /\ IntParses(lim)
    THEN [none |-> FALSE, offset |-> Max(0, int(off)), limit |-> Min(MAX_LIMIT, int(lim))]
    ELSE [none |-> TRUE, offset |-> 0, limit |-> 0]

\* validate_conferences keeping the known codes and dropping the others
validate_conferences_partial(src) ==
    IF ~src.present \/ src.s = <<>> THEN PyNone
    ELSE LET parts == split(src.s, ",")
             lowered == [k \in DOMAIN parts |-> lower(strip(parts[k]))]
             known == SelectSeq(lowered, LAMBDA c : c \in ALLOWED_CONFERENCES)
         IN IF known = <<>> THEN PyNone
            ELSE PyList([k \in DOMAIN known |-> upper(known[k])])

\* validate_conferences: None, or the list of upper-cased codes
validate_conferences(src) ==
    IF ~src.present \/ src.s = <<>> THEN PyNone
    ELSE LET parts == split(src.s, ",")
             lowered == [k \in DOMAIN parts |-> lower(strip(parts[k]))]
         IN IF ~(Range(lowered) \subseteq ALLOWED_CONFERENCES) THEN PyNone
            ELSE PyList([k \in DOMAIN lowered |-> upper(lowered[k])])

\* the for loop of validate_years from token k on, year_list being acc
RECURSIVE YearLoop(_, _, _)
YearLoop(tokens, k, acc) ==
    IF k > Len(tokens) THEN PyList(acc)
    ELSE LET y == tokens[k]
         IN IF ~isdigit(y) \/ Len(y) # 4 THEN PyNone
            ELSE IF ~IntParses(y) THEN PyRaise("ValueError")
            ELSE IF int(y) < MIN_YEAR \/ int(y) > MAX_YEAR THEN PyNone
            ELSE YearLoop(tokens, k + 1, Append(acc, int(y)))

\* validate_years: None, the list of years, or the ValueError of int()
validate_years(yr) ==
    IF ~yr.present \/ yr.s = <<>> THEN PyNone
    ELSE YearLoop(split(yr.s, ","), 1, <<>>)

(***************************************************************************)
(* search_papers: the sqlite3 statements                                   *)
(***************************************************************************)
\* the number of ? placeholders of a statement text
CountPlaceholders(text) == Cardinality({k \in DOMAIN text : text[k] = "?"})

\* cursor.execute(sql, bound): sqlite3.ProgrammingError (a sqlite3.Error)
\* unless one value is supplied per placeholder; extra is the number of
\* placeholders the statement adds after the WHERE expression
ExecuteRaises(where, bound, extra) ==
    CountPlaceholders(where) + extra # Len(bound)

MsgBindings == "Incorrect number of bindings supplied"
MsgNoTable == "no such table: papers"
MsgCannotOpen == "unable to open database file"
MsgClosed == "Cannot operate on a closed database."
MsgSyntax == "syntax error"

(***************************************************************************)
(* The papers table (src/config.py) and the values of its columns          *)
(***************************************************************************)
\* SQL NULL, distinct from every str
NULL == <<"NULL">>
NullValue == [kind |-> "null", text |-> <<>>, int |-> 0]

\* a row of papers; the columns the search does not read are NULL
Paper(id, conference, yr, title, abstract) ==
    [id |-> id, conference |-> conference, year |-> yr, volume |-> NULL,
     title |-> title, href |-> NULL, origin |-> NULL, abstract |-> abstract,
     bib |-> NULL, cat |-> NULL]

ID == <<"i","d">>
P_IOT ==
    Paper(1, <<"C","C","S">>, 2023,
          <<"I","o","T"," ","S","e","c","u","r","i","t","y"," ","S","u","r","v","e","y">>,
          NULL)
P_GRAPH ==
    Paper(2, <<"C","C","S">>, 2023,
          <<"G","r","a","p","h"," ","T","h","e","o","r","y">>,
          <<"a","b","o","u","t"," ","b","r","i","d","g","e","s">>)
P_CATS ==
    Paper(3, <<"S","P">>, 2024, <<"C","a","t","s">>, <<"a","_","b"," ","c">>)
P_AZ ==
    Paper(5, <<"S","P">>, 2016, <<"a","Z"," ","7">>, <<"b","c">>)

\* the database file: what connecting or preparing fails with ("" when
\* neither fails) and the rows of papers in rowid order
Database(rows) == [fault |-> "", papers |-> rows]
STORE_EMPTY == Database(<<>>)
STORE_TWO == Database(<<P_IOT, P_GRAPH>>)
STORE_FOUR == Database(<<P_IOT, P_GRAPH, P_CATS, P_AZ>>)

CONFERENCE == <<"c","o","n","f","e","r","e","n","c","e">>
YEAR == <<"y","e","a","r">>
Columns == {ID, TITLE, ABSTRACT, CONFERENCE, YEAR}

\* the value of the column called name in row
ColumnValue(row, name) ==
    IF name = ID THEN IntParam(row.id)
    ELSE IF name = TITLE THEN TextParam(row.title)
    ELSE IF name = ABSTRACT
    THEN (IF row.abstract = NULL THEN NullValue ELSE TextParam(row.abstract))
    ELSE IF name = CONFERENCE THEN TextParam(row.conference)
    ELSE IntParam(row.year)

(***************************************************************************)
(* SQLite: three-valued logic, LIKE, IN                                    *)
(***************************************************************************)
And3(a, b) ==
    IF a = "F" \/ b = "F" THEN "F" ELSE IF a = "N" \/ b = "N" THEN "N" ELSE "T"

Or3(a, b) ==
    IF a = "T" \/ b = "T" THEN "T" ELSE IF a = "N" \/ b = "N" THEN "N" ELSE "F"

\* LIKE telling upper case from lower case
RECURSIVE LikeMatchExact(_, _, _, _)
LikeMatchExact(p, t, i, j) ==
    IF i > Len(p) THEN j > Len(t)
    ELSE IF p[i] = "%"
    THEN LikeMatchExact(p, t, i + 1, j) \/ (j <= Len(t) /\ LikeMatchExact(p, t, i, j + 1))
    ELSE /\ j <= Len(t)
         /\ p[i] = "_" \/ p[i] = t[j]
         /\ LikeMatchExact(p, t, i + 1, j + 1)

\* pattern p from index i matches text t from index j: % is any run of
\* characters, _ any one character, ASCII letters match in either case
RECURSIVE LikeMatch(_, _, _, _)
LikeMatch(p, t, i, j) ==
    IF i > Len(p) THEN j > Len(t)
    ELSE IF p[i] = "%"
    THEN LikeMatch(p, t, i + 1, j) \/ (j <= Len(t) /\ LikeMatch(p, t, i, j + 1))
    ELSE /\ j <= Len(t)
         /\ p[i] = "_" \/ lower_char(p[i]) = lower_char(t[j])
         /\ LikeMatch(p, t, i + 1, j + 1)

\* value LIKE pattern
Like3(value, pattern) ==
    IF value.kind = "null" \/ pattern.kind = "null" THEN "N"
    ELSE IF LikeMatch(pattern.text, value.text, 1, 1) THEN "T"
    ELSE "F"

\* value IN (candidates)
In3(value, candidates) ==
    IF value.kind = "null" THEN "N"
    ELSE IF \E k \in DOMAIN candidates : candidates[k] = value THEN "T"
    ELSE IF \E k \in DOMAIN candidates : candidates[k].kind = "null" THEN "N"
    ELSE "F"

(***************************************************************************)
(* SQLite: the WHERE expression, read from its text.  AND binds tighter    *)
(* than OR; parentheses group.  A reading is [ok, v, pos, p]: whether the  *)
(* text parses, the value for the row, the next index of the text and the  *)
(* next index of the bound values.                                         *)
(***************************************************************************)
SyntaxError == [ok |-> FALSE, v |-> "N", pos |-> 1, p |-> 1]

IsIdentChar(c) ==
    c \in Range(LowerAlpha) \cup Range(UpperAlpha) \cup Range(AsciiDigits) \cup {"_"}

\* the first index from pos on that holds no blank (Len + 1 if none)
SkipSpaces(text, pos) ==
    IF pos > Len(text) THEN Len(text) + 1
    ELSE CHOOSE k \in pos..(Len(text) + 1) :
            /\ k = Len(text) + 1 \/ text[k] # " "
            /\ \A j \in pos..(k - 1) : text[j] = " "

\* the keyword w (in upper case) stands at pos, in either case
KeywordAt(text, pos, w) ==
    /\ pos + Len(w) - 1 <= Len(text)
    /\ \A k \in DOMAIN w : upper_char(text[pos + k - 1]) = w[k]
    /\ pos + Len(w) > Len(text) \/ ~IsIdentChar(text[pos + Len(w)])

\* the last index of the identifier that starts at pos
IdentEnd(text, pos) ==
    CHOOSE e \in pos..Len(text) :
        /\ \A j \in pos..e : IsIdentChar(text[j])
        /\ e = Len(text) \/ ~IsIdentChar(text[e + 1])

\* the value bound to the p-th placeholder
BoundAt(bound, p) == IF p \in DOMAIN bound THEN bound[p] ELSE NullValue

\* column = ?
Eq3(value, other) ==
    IF value.kind = "null" \/ other.kind = "null" THEN "N"
    ELSE IF value = other THEN "T"
    ELSE "F"

\* ( ?, ?, ... ) from the opening parenthesis at lp: the index of the
\* closing one, 0 if the list is malformed
PlaceholderListEnd(text, lp) ==
    IF ~\E k \in (lp + 1)..Len(text) : text[k] = ")" THEN 0
    ELSE LET rp == CHOOSE k \in (lp + 1)..Len(text) :
                       text[k] = ")" /\ \A j \in (lp + 1)..(k - 1) : text[j] # ")"
             inner == SelectSeq(SubSeq(text, lp + 1, rp - 1), LAMBDA c : c # " ")
         IN IF inner = Placeholders([k \in 1..CountPlaceholders(inner) |-> k])
            THEN rp ELSE 0

\* 1=1 | column LIKE ? | column IN ( ?, ... ) | column = ? at index k
Condition(text, row, bound, k, p) ==
    IF k + 2 <= Len(text) /\ SubSeq(text, k, k + 2) = <<"1","=","1">>
    THEN [ok |-> TRUE, v |-> "T", pos |-> k + 3, p |-> p]
    ELSE IF ~IsIdentChar(text[k]) \/ IsDecimal(text[k]) THEN SyntaxError
    ELSE LET e == IdentEnd(text, k)
             name == lower(SubSeq(text, k, e))
             o == SkipSpaces(text, e + 1)
         IN IF name \notin Columns THEN SyntaxError
            ELSE IF KeywordAt(text, o, <<"L","I","K","E">>)
            THEN LET m == SkipSpaces(text, o + 4)
                 IN IF m <= Len(text) /\ text[m] = "?"
                    THEN [ok |-> TRUE,
                          v |-> Like3(ColumnValue(row, name), BoundAt(bound, p)),
                          pos |-> m + 1, p |-> p + 1]
                    ELSE SyntaxError
            ELSE IF KeywordAt(text, o, <<"I","N">>)
            THEN LET lp == SkipSpaces(text, o + 2)
                     rp == PlaceholderListEnd(text, lp)
                     n == CountPlaceholders(SubSeq(text, lp, rp))
                 IN IF lp <= Len(text) /\ text[lp] = "(" /\ rp # 0
                    THEN [ok |-> TRUE,
                          v |-> In3(ColumnValue(row, name),
                                    [j \in 1..n |-> BoundAt(bound, p + j - 1)]),
                          pos |-> rp + 1, p |-> p + n]
                    ELSE SyntaxError
            ELSE IF o <= Len(text) /\ text[o] = "="
            THEN LET m == SkipSpaces(text, o + 1)
                 IN IF m <= Len(text) /\ text[m] = "?"
                    THEN [ok |-> TRUE,
                          v |-> Eq3(ColumnValue(row, name), BoundAt(bound, p)),
                          pos |-> m + 1, p |-> p + 1]
                    ELSE SyntaxError
            ELSE SyntaxError

\* The expression is read left to right with a stack of values and a stack
\* of pending operators: [pos, p, vals, ops, operand, pending, halt, ok].
\* operand tells whether a condition or "(" is due next; pending is the
\* operator, ")" or "END" read last, waiting for the operators on the stack
\* that bind at least as tightly to be applied first.
ReadStart ==
    [pos |-> 1, p |-> 1, vals |-> <<>>, ops |-> <<>>, operand |-> TRUE,
     pending |-> "", halt |-> FALSE, ok |-> FALSE]

\* whether the operator on top of the stack is applied before pending
AppliedFirst(top, pending) ==
    /\ top \in {"AND", "OR"}
    /\ pending = "AND" => top = "AND"

ReadStep(text, row, bound, st) ==
    LET failed == [st EXCEPT !.halt = TRUE, !.ok = FALSE]
        top == IF st.ops = <<>> THEN "" ELSE st.ops[Len(st.ops)]
        n == Len(st.vals)
        k == SkipSpaces(text, st.pos)
    IN IF st.pending # ""
       THEN IF AppliedFirst(top, st.pending)
            THEN [st EXCEPT
                    !.ops = SubSeq(st.ops, 1, Len(st.ops) - 1),
                    !.vals = Append(SubSeq(st.vals, 1, n - 2),
                                    IF top = "AND" THEN And3(st.vals[n - 1], st.vals[n])
                                    ELSE Or3(st.vals[n - 1], st.vals[n]))]
            ELSE IF st.pending \in {"AND", "OR"}
            THEN [st EXCEPT !.ops = Append(st.ops, st.pending), !.pending = "",
                            !.operand = TRUE]
            ELSE IF st.pending = ")"
            THEN IF top = "("
                 THEN [st EXCEPT !.ops = SubSeq(st.ops, 1, Len(st.ops) - 1),
                                 !.pending = ""]
                 ELSE failed
            ELSE [st EXCEPT !.halt = TRUE, !.ok = (st.ops = <<>>)]
       ELSE IF st.operand
       THEN IF k > Len(text) THEN failed
            ELSE IF text[k] = "("
            THEN [st EXCEPT !.ops = Append(st.ops, "("), !.pos = k + 1]
            ELSE LET c == Condition(text, row, bound, k, st.p)
                 IN IF c.ok
                    THEN [st EXCEPT !.vals = Append(st.vals, c.v), !.pos = c.pos,
                                    !.p = c.p, !.operand = FALSE]
                    ELSE failed
       ELSE IF k > Len(text) THEN [st EXCEPT !.pending = "END"]
       ELSE IF text[k] = ")" THEN [st EXCEPT !.pending = ")", !.pos = k + 1]
       ELSE IF KeywordAt(text, k, <<"A","N","D">>)
       THEN [st EXCEPT !.pending = "AND", !.pos = k + 3]
       ELSE IF KeywordAt(text, k, <<"O","R">>)
       THEN [st EXCEPT !.pending = "OR", !.pos = k + 2]
       ELSE failed

RECURSIVE ReadLoop(_, _, _, _)
ReadLoop(text, row, bound, st) ==
    IF st.halt THEN st ELSE ReadLoop(text, row, bound, ReadStep(text, row, bound, st))

\* whether the text is an expression sqlite3 prepares
SyntaxOk(text) ==
    ReadLoop(text, Paper(0, <<>>, 0, <<>>, NULL), <<>>, ReadStart).ok

\* whether WHERE text selects the row
Selects(text, row, bound) ==
    LET st == ReadLoop(text, row, bound, ReadStart)
    IN st.ok /\ st.vals = <<"T">>

\* the rows of the table the expression selects, in rowid order
Matching(papers, text, bound) ==
    SelectSeq(papers, LAMBDA row : Selects(text, row, bound))

\* ORDER BY year DESC; rows of one year keep the order of the scan
OrderByYearDesc(rows) ==
    LET before(j, k) ==
            rows[j].year > rows[k].year \/ (rows[j].year = rows[k].year /\ j < k)
        rank(k) == Cardinality({j \in DOMAIN rows : before(j, k)}) + 1
    IN [r \in DOMAIN rows |-> rows[CHOOSE k \in DOMAIN rows : rank(k) = r]]

\* LIMIT lim OFFSET off: a negative LIMIT is no limit, a negative OFFSET 0
LimitOffset(rows, lim, off) ==
    LET skip == Max(off, 0)
        upto == IF lim < 0 THEN Len(rows) ELSE Min(Len(rows), skip + lim)
    IN IF skip >= upto THEN <<>> ELSE SubSeq(rows, skip + 1, upto)

\* what cursor.execute raises: [exc, msg], exc "" when the statement runs.
\* The connection is checked first, then the statement is prepared, then
\* the number of values is compared with the placeholders (extra of them
\* after the WHERE expression), then each value is bound.
NoFailure == [exc |-> "", msg |-> ""]
SqliteError(msg) == [exc |-> "sqlite3.Error", msg |-> msg]
OverflowError == [exc |-> "OverflowError", msg |-> ""]

Execute(is_open, store, text, bound, extra) ==
    IF ~is_open THEN SqliteError(MsgClosed)
    ELSE IF store.fault # "" THEN SqliteError(store.fault)
    ELSE IF ~SyntaxOk(text) THEN SqliteError(MsgSyntax)
    ELSE IF ExecuteRaises(text, bound, extra) THEN SqliteError(MsgBindings)
    ELSE IF \E k \in DOMAIN bound :
                bound[k].kind = "int" /\ ~FitsSqliteInteger(bound[k].int)
    THEN OverflowError
    ELSE NoFailure

(***************************************************************************)
(* Responses                                                               *)
(***************************************************************************)
\* an envelope is [keys, code, msg, total, rows, data], keys naming the
\* entries the dict holds; exc names the exception when one is raised instead
NoResponse ==
    [keys |-> {}, code |-> -1, msg |-> "", exc |-> "", total |-> -1,
     rows |-> <<>>, data |-> <<>>]
Json(code, msg) ==
    [NoResponse EXCEPT !.keys = {"code", "msg"}, !.code = code, !.msg = msg]
Raised(e) == [NoResponse EXCEPT !.exc = e]

\* {"code": 0, "msg": "success", "rows": results, "total": total}
SearchSuccess(n, results) ==
    [NoResponse EXCEPT !.keys = {"code", "msg", "rows", "total"}, !.code = 0,
                       !.msg = "success", !.total = n, !.rows = results]

\* {"code": 0, "msg": "success", "data": results}
AbstractSuccess(results) ==
    [NoResponse EXCEPT !.keys = {"code", "msg", "data"}, !.code = 0,
                       !.msg = "success", !.data = results]

\* the one connection object of a module that connects once and shares it
get_db_connection_shared(call) == "module"

\* sqlite3.connect(DB_PATH): every call makes a connection object of its
\* own, named here after the call that made it
get_db_connection(call) == call
MAIN == "request"
PEER == "peer"

NoPeer ==
    [pc |-> "idle", q |-> <<>>, source |-> Absent, year |-> Absent,
     offset |-> <<>>, limit |-> <<>>, pagination |-> [none |-> TRUE, offset |-> 0, limit |-> 0],
     where_clause |-> <<>>, params |-> <<>>, total |-> 0, response |-> NoResponse]

\* no crawler run: [pc, path, papers, i, stats, runs]
NoStats == [added |-> 0, skipped |-> 0, errors |-> 0]
NoIngest ==
    [pc |-> "idle", path |-> "", papers |-> <<>>, i |-> 0, stats |-> NoStats, runs |-> 0]

NoScan == ScanInit
NoPagination == [none |-> TRUE, offset |-> 0, limit |-> 0]
NoError == [none |-> TRUE, msg |-> ""]

(***************************************************************************)
(* Sample strings                                                          *)
(***************************************************************************)
Q_A_PLUS_PLUS_B == <<"a","+","+","b">>
Q_SECURITY_OR_IOT == <<"s","e","c","u","r","i","t","y","|","i","o","t">>
Q_A_OR_B_AND_C == <<"a","|","b","+","c">>
Q_INJECTION == <<"a","'"," ","O","R"," ","'","1","'","=","'","1">>
N_0 == <<"0">>
N_10 == <<"1","0">>
N_MINUS_3 == <<"-","3">>
N_500 == <<"5","0","0">>
N_ABC == <<"a","b","c">>
N_MINUS_5 == <<"-","5">>
N_PLUS_5 == <<"+","5">>
N_1 == <<"1">>
N_2 == <<"2">>
N_3 == <<"3">>
N_4 == <<"4">>
N_MINUS_1 == <<"-","1">>
N_INT64_MAX == INT64_MAX
N_INT64_OVER == INT64_MIN_MAGNITUDE
N_INT64_MIN == <<"-">> \o INT64_MIN_MAGNITUDE
N_INT64_UNDER == <<"-","9","2","2","3","3","7","2","0","3","6","8","5","4","7","7","5","8","0","9">>
S_CCS == <<"c","c","s">>
S_CCS_BOGUS == <<"c","c","s",",","b","o","g","u","s">>
S_CCS_SP == <<"C","C","S",","," ","s","p">>
Y_2015 == <<"2","0","1","5">>
Y_2016 == <<"2","0","1","6">>
Y_2020 == <<"2","0","2","0">>
Y_2025 == <<"2","0","2","5">>
Y_2026 == <<"2","0","2","6">>
Y_0999 == <<"0","9","9","9">>
Y_201 == <<"2","0","1">>
Y_20166 == <<"2","0","1","6","6">>
Y_BLANK_2016 == <<" ","2","0","1","6">>
Y_20X6 == <<"2","0","x","6">>
Y_2023_2024 == <<"2","0","2","3",",","2","0","2","4">>
Y_SUP2_016 == <<"sup2","0","1","6">>
LongGood == [k \in 1..MAX_KEYWORD_LENGTH |-> "a"]
LongBad == [k \in 1..(MAX_KEYWORD_LENGTH + 1) |-> IF k = 1 THEN "-" ELSE "a"]

(***************************************************************************)
(* Request inputs                                                          *)
(***************************************************************************)
Strs(alphabet, n) == UNION {[1..k -> alphabet] : k \in 0..n}

\* q: word characters, blanks, the delimiters, a CJK character, a
\* digit-valued non-decimal character, and characters outside the class
KeywordChars ==
    {"a", "Z", "7", "_", " ", "\n", "+", "|", "zh", "sup2", "'", "%", ";", "-", "="}

\* q of a length around MAX_KEYWORD_LENGTH: one leading character, then "a"s
LongKeywords ==
    {[k \in 1..n |-> IF k = 1 THEN c ELSE "a"] :
        c \in KeywordChars,
        n \in (MAX_KEYWORD_LENGTH - PadSlack)..(MAX_KEYWORD_LENGTH + PadSlack)}

KeywordSamples ==
    {Q_A_PLUS_PLUS_B, Q_SECURITY_OR_IOT, Q_A_OR_B_AND_C, Q_INJECTION}

KeywordInputs == Strs(KeywordChars, KwMaxLen) \cup LongKeywords \cup KeywordSamples

NumChars == {"-", "0", "5", "_", " ", "x"}
NumInputs == Strs(NumChars, NumMaxLen) \cup {N_500, N_ABC}
NumSamples == {N_0, N_10, N_MINUS_3, N_PLUS_5, N_500, N_ABC, <<>>}

SourceChars == {"s", "p", "S", ",", " ", "x"}
SourceInputs ==
    {Absent} \cup {Given(s) : s \in Strs(SourceChars, SrcMaxLen) \cup {S_CCS_BOGUS, S_CCS_SP, S_CCS}}

YearTokens ==
    {Y_2015, Y_2016, Y_2020, Y_2025, Y_2026, Y_0999, Y_201, Y_20166,
     Y_SUP2_016, Y_BLANK_2016, Y_20X6, <<>>}
YearInputs ==
    {Absent, Given(<<>>)}
    \cup {Given(join(ts, <<",">>)) :
            ts \in UNION {[1..k -> YearTokens] : k \in 1..YearMaxTokens}}

\* requests that vary one parameter widely and keep the others at the
\* defaults of request.args.get, and requests that mix good and bad values
\* of every parameter
Requests ==
    {[q |-> a, source |-> Absent, year |-> Absent, offset |-> N_0, limit |-> N_10] :
        a \in KeywordInputs}
    \cup {[q |-> <<"a">>, source |-> Absent, year |-> Absent, offset |-> a, limit |-> b] :
        a \in NumInputs, b \in NumSamples}
    \cup {[q |-> <<"a">>, source |-> Absent, year |-> Absent, offset |-> a, limit |-> b] :
        a \in NumSamples, b \in NumInputs}
    \cup {[q |-> <<"a">>, source |-> a, year |-> Absent, offset |-> N_0, limit |-> N_10] :
        a \in SourceInputs}
    \cup {[q |-> <<"a">>, source |-> Absent, year |-> a, offset |-> N_0, limit |-> N_10] :
        a \in YearInputs}
    \cup {[q |-> a, source |-> c, year |-> d, offset |-> N_0, limit |-> b] :
        a \in {<<"a">>, <<"+">>, <<"'">>, LongBad, LongGood},
        b \in {N_10, N_ABC, N_MINUS_3},
        c \in {Absent, Given(<<>>), Given(S_CCS), Given(S_CCS_BOGUS)},
        d \in {Absent, Given(<<>>), Given(Y_2016), Given(Y_2015), Given(Y_SUP2_016),
               Given(Y_2023_2024)}}
    \cup {[q |-> <<"a">>, source |-> Absent, year |-> Absent, offset |-> a, limit |-> b] :
        a \in {N_0, N_INT64_MAX, N_INT64_OVER},
        b \in {N_10, N_INT64_MIN, N_INT64_UNDER}}

\* requests that page through the matches of a few queries, with and
\* without the venue and year filters
PagedRequests ==
    {[q |-> a, source |-> f[1], year |-> f[2], offset |-> b, limit |-> c] :
        a \in {<<>>, <<" ">>, <<"a">>, Q_SECURITY_OR_IOT, Q_A_OR_B_AND_C},
        f \in {<<Absent, Absent>>, <<Given(S_CCS), Given(Y_2023_2024)>>},
        b \in {N_0, N_1, N_2},
        c \in {N_10, N_1, N_2, N_0, N_MINUS_1}}

\* a request and the database it is served from
Scenarios ==
    (Requests \X {STORE_FOUR})
    \cup (PagedRequests \X {STORE_EMPTY, STORE_TWO, STORE_FOUR})

(***************************************************************************)
(* get_info: GET /search                                                   *)
(***************************************************************************)
Init ==
    /\ \E sc \in Scenarios :
          /\ q = sc[1].q
          /\ source = sc[1].source
          /\ year = sc[1].year
          /\ offset = sc[1].offset
          /\ limit = sc[1].limit
          /\ db = sc[2]
    /\ pc = "validate_keyword"
    /\ scan = NoScan
    /\ error = NoError
    /\ pagination = NoPagination
    /\ source_list = PyNone
    /\ year_list = PyNone
    /\ keywords = <<>>
    /\ operators = <<>>
    /\ where_clause = <<>>
    /\ params = <<>>
    /\ open_conns = {}
    /\ paper_id = 0
    /\ previous = NoResponse
    /\ peer = NoPeer
    /\ ingest = NoIngest
    /\ total = 0
    /\ calls = <<>>
    /\ response = NoResponse

Request == <<q, source, year, offset, limit>>

\* what get_info and the functions it calls never assign
Aside == <<db, paper_id, previous, peer, ingest>>

\* whether the connection of the request is open
conn_open == get_db_connection(MAIN) \in open_conns

\* error = validate_keyword(q); if error: return
ValidateKeyword ==
    /\ pc = "validate_keyword"
    /\ error' = validate_keyword(q)
    /\ calls' = Append(calls, "validate_keyword")
    /\ IF ~error'.none
       THEN pc' = "done" /\ response' = Json(1, error'.msg)
       ELSE pc' = "validate_pagination" /\ UNCHANGED response
    /\ UNCHANGED <<Request, Aside, total, scan, pagination, source_list, year_list, keywords,
                   operators, where_clause, params, open_conns>>

\* pagination = validate_pagination(offset, limit); if not pagination: return
ValidatePagination ==
    /\ pc = "validate_pagination"
    /\ pagination' = validate_pagination(offset, limit)
    /\ calls' = Append(calls, "validate_pagination")
    /\ IF pagination'.none
       THEN pc' = "done" /\ response' = Json(1, MsgPagination)
       ELSE pc' = "validate_conferences" /\ UNCHANGED response
    /\ UNCHANGED <<Request, Aside, total, scan, error, source_list, year_list, keywords,
                   operators, where_clause, params, open_conns>>

\* the venue check with its return statement missing
ValidateConferencesNoReturn ==
    /\ pc = "validate_conferences"
    /\ source_list' = validate_conferences(source)
    /\ calls' = Append(calls, "validate_conferences")
    /\ pc' = "validate_years"
    /\ UNCHANGED <<Request, Aside, total, scan, error, pagination, year_list, keywords,
                   operators, where_clause, params, open_conns, response>>

\* source_list = validate_conferences(source)
\* if source == "" or (source and source_list is None): return
ValidateConferences ==
    /\ pc = "validate_conferences"
    /\ source_list' = validate_conferences(source)
    /\ calls' = Append(calls, "validate_conferences")
    /\ IF source.present /\ (source.s = <<>> \/ source_list'.none)
       THEN pc' = "done" /\ response' = Json(1, MsgConference)
       ELSE pc' = "validate_years" /\ UNCHANGED response
    /\ UNCHANGED <<Request, Aside, total, scan, error, pagination, year_list, keywords,
                   operators, where_clause, params, open_conns>>

\* the year check without its test for the empty string
ValidateYearsEmptyAsAbsent ==
    /\ pc = "validate_years"
    /\ year_list' = validate_years(year)
    /\ calls' = Append(calls, "validate_years")
    /\ IF year_list'.exc # ""
       THEN pc' = "done" /\ response' = Raised(year_list'.exc)
       ELSE IF year.present /\ year.s # <<>> /\ year_list'.none
       THEN pc' = "done" /\ response' = Json(1, MsgYear)
       ELSE pc' = "parse_keywords" /\ UNCHANGED response
    /\ UNCHANGED <<Request, Aside, total, scan, error, pagination, source_list,
                   keywords, operators, where_clause, params, open_conns>>

\* year_list = validate_years(year)
\* if year == "" or (year and year_list is None): return
ValidateYears ==
    /\ pc = "validate_years"
    /\ year_list' = validate_years(year)
    /\ calls' = Append(calls, "validate_years")
    /\ IF year_list'.exc # ""
       THEN pc' = "done" /\ response' = Raised(year_list'.exc)
       ELSE IF year.present /\ (year.s = <<>> \/ year_list'.none)
       THEN pc' = "done" /\ response' = Json(1, MsgYear)
       ELSE pc' = "parse_keywords" /\ UNCHANGED response
    /\ UNCHANGED <<Request, Aside, total, scan, error, pagination, source_list, keywords,
                   operators, where_clause, params, open_conns>>

\* the call parse_keywords(q): keywords = [], operator = [], tmp = [], i = 0
ParseKeywords ==
    /\ pc = "parse_keywords"
    /\ calls' = Append(calls, "parse_keywords")
    /\ scan' = ScanInit
    /\ pc' = "scan"
    /\ UNCHANGED <<Request, Aside, total, error, pagination, source_list, year_list, keywords,
                   operators, where_clause, params, open_conns, response>>

\* one pass through the body of `while i <= len(q)`
ScanIter ==
    /\ pc = "scan"
    /\ scan.i <= Len(q)
    /\ scan' = ScanStep(q, scan)
    /\ UNCHANGED <<Request, Aside, total, pc, error, pagination, source_list, year_list,
                   keywords, operators, where_clause, params, open_conns, calls,
                   response>>

\* return keywords, operator; get_info binds them to keywords, operators
ScanReturn ==
    /\ pc = "scan"
    /\ scan.i > Len(q)
    /\ keywords' = scan.keywords
    /\ operators' = scan.operator
    /\ pc' = "build_search_query"
    /\ UNCHANGED <<Request, Aside, total, scan, error, pagination, source_list, year_list,
                   where_clause, params, open_conns, calls, response>>

\* where_clause, params = build_search_query(keywords, operators, source_list, year_list)
BuildSearchQuery ==
    /\ pc = "build_search_query"
    /\ calls' = Append(calls, "build_search_query")
    /\ LET b == build_search_query(keywords, operators, source_list, year_list)
       IN IF b.exc # ""
          THEN /\ pc' = "done"
               /\ response' = Raised(b.exc)
               /\ UNCHANGED <<where_clause, params>>
          ELSE /\ pc' = "search_papers"
               /\ where_clause' = b.sql
               /\ params' = b.params
               /\ UNCHANGED response
    /\ UNCHANGED <<Request, Aside, total, scan, error, pagination, source_list, year_list,
                   keywords, operators, open_conns>>

\* what search_papers and get_paper_abstract make of a failure of execute:
\* except sqlite3.Error as e: return {"code": 1, "msg": str(e)}; any other
\* exception leaves the function
Outcome(e) == IF e.exc = "sqlite3.Error" THEN Json(1, e.msg) ELSE Raised(e.exc)

\* search_papers: with get_db_connection() as (conn, cursor); a connect
\* that fails raises inside the try
SearchConnect ==
    /\ pc = "search_papers"
    /\ calls' = Append(calls, "search_papers")
    /\ IF db.fault = MsgCannotOpen
       THEN /\ pc' = "done"
            /\ response' = Json(1, MsgCannotOpen)
            /\ UNCHANGED open_conns
       ELSE /\ pc' = "count"
            /\ open_conns' = open_conns \cup {get_db_connection(MAIN)}
            /\ UNCHANGED response
    /\ UNCHANGED <<Request, Aside, total, scan, error, pagination, source_list,
                   year_list, keywords, operators, where_clause, params>>

\* the count statement with a connection closed on the normal path only
SearchCountLeaking ==
    /\ pc = "count"
    /\ LET e == Execute(conn_open, db, where_clause, params, 0)
       IN IF e.exc # ""
          THEN /\ pc' = "done"
               /\ response' = Outcome(e)
               /\ UNCHANGED <<total, open_conns>>
          ELSE /\ pc' = "fetch"
               /\ total' = Len(Matching(db.papers, where_clause, params))
               /\ UNCHANGED <<open_conns, response>>
    /\ UNCHANGED <<Request, Aside, scan, error, pagination, source_list, year_list,
                   keywords, operators, where_clause, params, calls>>

\* cursor.execute(count_sql, params); total = cursor.fetchone()[0]; an
\* exception leaves the with block, which closes the connection
SearchCount ==
    /\ pc = "count"
    /\ LET e == Execute(conn_open, db, where_clause, params, 0)
       IN IF e.exc # ""
          THEN /\ pc' = "done"
               /\ open_conns' = open_conns \ {get_db_connection(MAIN)}
               /\ response' = Outcome(e)
               /\ UNCHANGED total
          ELSE /\ pc' = "fetch"
               /\ total' = Len(Matching(db.papers, where_clause, params))
               /\ UNCHANGED <<open_conns, response>>
    /\ UNCHANGED <<Request, Aside, scan, error, pagination, source_list, year_list,
                   keywords, operators, where_clause, params, calls>>

\* what the data statement yields for the values bound, the last two being
\* limit and offset
FetchRows(store, text, bound) ==
    LimitOffset(OrderByYearDesc(Matching(store.papers, text, bound)),
                bound[Len(bound) - 1].int, bound[Len(bound)].int)

\* the data statement deleting the rows it returns
SearchFetchConsuming ==
    /\ pc = "fetch"
    /\ LET bound == params \o <<IntParam(pagination.limit), IntParam(pagination.offset)>>
           e == Execute(conn_open, db, where_clause, bound, 2)
           results == FetchRows(db, where_clause, bound)
       IN IF e.exc # ""
          THEN response' = Outcome(e) /\ UNCHANGED db
          ELSE /\ response' = SearchSuccess(total, results)
               /\ db' = [db EXCEPT !.papers =
                             SelectSeq(db.papers, LAMBDA row : row \notin Range(results))]
    /\ open_conns' = open_conns \ {get_db_connection(MAIN)}
    /\ pc' = "done"
    /\ UNCHANGED <<Request, paper_id, previous, peer, ingest, total, scan, error, pagination,
                   source_list, year_list, keywords, operators, where_clause, params,
                   calls>>

\* cursor.execute(data_sql, params + [limit, offset]); results = [dict(zip(
\* key_list, row)) for row in cursor]; return; conn.close()
SearchFetch ==
    /\ pc = "fetch"
    /\ LET bound == params \o <<IntParam(pagination.limit), IntParam(pagination.offset)>>
           e == Execute(conn_open, db, where_clause, bound, 2)
       IN response' = IF e.exc # "" THEN Outcome(e)
                      ELSE SearchSuccess(total, FetchRows(db, where_clause, bound))
    /\ open_conns' = open_conns \ {get_db_connection(MAIN)}
    /\ pc' = "done"
    /\ UNCHANGED <<Request, Aside, total, scan, error, pagination, source_list,
                   year_list, keywords, operators, where_clause, params, calls>>

Next ==
    \/ ValidateKeyword
    \/ ValidatePagination
    \/ ValidateConferences
    \/ ValidateYears
    \/ ParseKeywords
    \/ ScanIter
    \/ ScanReturn
    \/ BuildSearchQuery
    \/ SearchConnect
    \/ SearchCount
    \/ SearchFetch

Spec == Init /\ [][Next]_vars

(***************************************************************************)
(* get_abs: GET /abstract/<q>, and get_paper_abstract                      *)
(***************************************************************************)
\* "SELECT title, abstract FROM papers WHERE id=?": the WHERE expression
ABSTRACT_WHERE == <<"i","d","=","?">>

\* list(cursor): the (title, abstract) pairs of the rows selected
TitlesAndAbstracts(rows) ==
    [k \in DOMAIN rows |-> [title |-> rows[k].title, abstract |-> rows[k].abstract]]

\* the locals of get_info, which get_abs and get_paper_abstract lack
SearchLocals ==
    <<source, year, offset, limit, scan, error, pagination, source_list, year_list,
      keywords, operators, where_clause, params, total>>

\* paper_id = int(q); if paper_id <= 0: raise ValueError()
\* except (ValueError, TypeError): return {"code": 1, "msg": "Invalid paper id"}
GetAbs ==
    /\ pc = "get_abs"
    /\ calls' = Append(calls, "get_abs")
    /\ IF ~IntParses(q)
       THEN pc' = "done" /\ response' = Json(1, MsgPaperId) /\ UNCHANGED paper_id
       ELSE /\ paper_id' = int(q)
            /\ IF paper_id' <= 0
               THEN pc' = "done" /\ response' = Json(1, MsgPaperId)
               ELSE pc' = "get_paper_abstract" /\ UNCHANGED response
    /\ UNCHANGED <<q, SearchLocals, open_conns, db, previous, peer, ingest>>

\* get_paper_abstract: with get_db_connection() as (conn, cursor)
AbstractConnect ==
    /\ pc = "get_paper_abstract"
    /\ calls' = Append(calls, "get_paper_abstract")
    /\ IF db.fault = MsgCannotOpen
       THEN /\ pc' = "done"
            /\ response' = Json(1, MsgCannotOpen)
            /\ UNCHANGED open_conns
       ELSE /\ pc' = "select"
            /\ open_conns' = open_conns \cup {get_db_connection(MAIN)}
            /\ UNCHANGED response
    /\ UNCHANGED <<q, SearchLocals, db, paper_id, previous, peer, ingest>>

\* cursor.execute(sql, (paper_id,)); results = list(cursor); return;
\* conn.close()
AbstractSelect ==
    /\ pc = "select"
    /\ LET bound == <<IntParam(paper_id)>>
           e == Execute(conn_open, db, ABSTRACT_WHERE, bound, 0)
       IN response' =
              IF e.exc # "" THEN Outcome(e)
              ELSE AbstractSuccess(
                       TitlesAndAbstracts(Matching(db.papers, ABSTRACT_WHERE, bound)))
    /\ open_conns' = open_conns \ {get_db_connection(MAIN)}
    /\ pc' = "done"
    /\ UNCHANGED <<q, SearchLocals, db, paper_id, previous, peer, ingest, calls>>

\* the path parameter: int() literals around 0 and around the ids stored,
\* other strings, and literals at the ends of SQLite's INTEGER
IdInputs ==
    NumInputs \cup {N_1, N_2, N_3, N_4, N_10, N_PLUS_5, N_INT64_MAX, N_INT64_OVER,
                    N_INT64_UNDER}

STORE_NO_TABLE == [fault |-> MsgNoTable, papers |-> <<>>]
STORE_UNOPENABLE == [fault |-> MsgCannotOpen, papers |-> <<>>]

InitAbs ==
    /\ q \in IdInputs
    /\ db \in {STORE_FOUR, STORE_EMPTY, STORE_NO_TABLE, STORE_UNOPENABLE}
    /\ source = Absent
    /\ year = Absent
    /\ offset = <<>>
    /\ limit = <<>>
    /\ pc = "get_abs"
    /\ scan = NoScan
    /\ error = NoError
    /\ pagination = NoPagination
    /\ source_list = PyNone
    /\ year_list = PyNone
    /\ keywords = <<>>
    /\ operators = <<>>
    /\ where_clause = <<>>
    /\ params = <<>>
    /\ open_conns = {}
    /\ paper_id = 0
    /\ previous = NoResponse
    /\ peer = NoPeer
    /\ ingest = NoIngest
    /\ total = 0
    /\ calls = <<>>
    /\ response = NoResponse

NextAbs == GetAbs \/ AbstractConnect \/ AbstractSelect

SpecAbs == InitAbs /\ [][NextAbs]_vars

\* a store of more records than MAX_LIMIT, all with the term "a" in the title
STORE_LARGE ==
    Database([k \in 1..(MAX_LIMIT + 1) |->
                 Paper(k, <<"C","C","S">>, MIN_YEAR + (k % 3), <<"a">>, NULL)])

N_100 == <<"1","0","0">>
N_101 == <<"1","0","1">>

\* requests for whole pages of the large store
LargeRequests ==
    {[q |-> a, source |-> f[1], year |-> f[2], offset |-> b, limit |-> c] :
        a \in {<<>>, <<"a">>},
        f \in {<<Absent, Absent>>, <<Given(S_CCS), Given(Y_2016)>>},
        b \in {N_0, N_1},
        c \in {N_100, N_101, N_500, N_0, N_MINUS_1, N_MINUS_3}}

InitLarge ==
    /\ \E rq \in LargeRequests :
          /\ q = rq.q
          /\ source = rq.source
          /\ year = rq.year
          /\ offset = rq.offset
          /\ limit = rq.limit
    /\ db = STORE_LARGE
    /\ pc = "validate_keyword"
    /\ scan = NoScan
    /\ error = NoError
    /\ pagination = NoPagination
    /\ source_list = PyNone
    /\ year_list = PyNone
    /\ keywords = <<>>
    /\ operators = <<>>
    /\ where_clause = <<>>
    /\ params = <<>>
    /\ open_conns = {}
    /\ paper_id = 0
    /\ previous = NoResponse
    /\ peer = NoPeer
    /\ ingest = NoIngest
    /\ total = 0
    /\ calls = <<>>
    /\ response = NoResponse

SpecLarge == InitLarge /\ [][Next]_vars

(***************************************************************************)
(* search_papers and get_paper_abstract called directly, each call made a  *)
(* second time with the same arguments                                     *)
(***************************************************************************)
\* argument lists (where_clause, params): what build_search_query returns
\* for aligned and misaligned lists, and two hand-written ones, the first
\* malformed, the second short of a value
Compiled(kws, ops, srcs, years) ==
    LET b == build_search_query(kws, ops, srcs, years)
    IN [where_clause |-> b.sql, params |-> b.params]

StatementArgs ==
    {Compiled(k[1], k[2], f[1], f[2]) :
        k \in {<<<<>>, <<>>>>,
               <<<<<<"a">>>>, <<>>>>,
               <<<<<<"a">>, <<"b">>>>, <<OP_AND>>>>,
               <<<<<<"a">>, <<"b">>>>, <<OP_OR>>>>,
               <<<<<<"a">>>>, <<OP_AND>>>>},
        f \in {<<PyNone, PyNone>>,
               <<PyList(<<<<"C","C","S">>>>), PyList(<<2023>>)>>}}
    \cup {[where_clause |-> <<"(","(">> \o LikeCondition(<<"a">>, TITLE) \o <<")"," ","O","R">>,
           params |-> <<LikeParam(<<"a">>)>>],
          [where_clause |-> LikeCondition(<<"a">>, TITLE), params |-> <<>>]}

LimitArgs == {10, 1, 0, -1, 0 - BeyondInt64}
OffsetArgs == {0, 1, BeyondInt64}
PaperIdArgs == {1, 4, -1, BeyondInt64}

InitStore ==
    /\ db \in {STORE_FOUR, STORE_EMPTY, STORE_NO_TABLE, STORE_UNOPENABLE}
    /\ \/ /\ pc = "search_papers"
          /\ \E a \in StatementArgs : where_clause = a.where_clause /\ params = a.params
          /\ \E l \in LimitArgs, o \in OffsetArgs :
                pagination = [none |-> FALSE, offset |-> o, limit |-> l]
          /\ paper_id = 0
       \/ /\ pc = "get_paper_abstract"
          /\ where_clause = <<>>
          /\ params = <<>>
          /\ pagination = NoPagination
          /\ paper_id \in PaperIdArgs
    /\ q = <<>>
    /\ source = Absent
    /\ year = Absent
    /\ offset = <<>>
    /\ limit = <<>>
    /\ scan = NoScan
    /\ error = NoError
    /\ source_list = PyNone
    /\ year_list = PyNone
    /\ keywords = <<>>
    /\ operators = <<>>
    /\ open_conns = {}
    /\ previous = NoResponse
    /\ peer = NoPeer
    /\ ingest = NoIngest
    /\ total = 0
    /\ calls = <<>>
    /\ response = NoResponse

\* the caller makes the call it made once more, with the same arguments
CallAgain ==
    /\ pc = "done"
    /\ previous = NoResponse
    /\ previous' = response
    /\ response' = NoResponse
    /\ pc' = calls[1]
    /\ UNCHANGED <<Request, db, paper_id, peer, ingest, total, scan, error, pagination,
                   source_list, year_list, keywords, operators, where_clause, params,
                   open_conns, calls>>

NextStore ==
    \/ SearchConnect
    \/ SearchCount
    \/ SearchFetch
    \/ AbstractConnect
    \/ AbstractSelect
    \/ CallAgain

SpecStore == InitStore /\ [][NextStore]_vars

(***************************************************************************)
(* two GET /search requests served at the same time from one database      *)
(***************************************************************************)
\* parse_keywords run to its return
RECURSIVE ScanLoop(_, _)
ScanLoop(qs, st) == IF st.i > Len(qs) THEN st ELSE ScanLoop(qs, ScanStep(qs, st))

\* get_info up to its call of search_papers: the response it returns
\* before that call, or the arguments of the call
Proceeds(text, bound, pg) ==
    [response |-> NoResponse, where_clause |-> text, params |-> bound, pagination |-> pg]
Returns(r) ==
    [response |-> r, where_clause |-> <<>>, params |-> <<>>, pagination |-> NoPagination]
GetInfoLocals(rq) ==
    LET e == validate_keyword(rq.q)
        pg == validate_pagination(rq.offset, rq.limit)
        srcs == validate_conferences(rq.source)
        years == validate_years(rq.year)
        st == ScanLoop(rq.q, ScanInit)
        b == build_search_query(st.keywords, st.operator, srcs, years)
    IN IF ~e.none THEN Returns(Json(1, e.msg))
       ELSE IF pg.none THEN Returns(Json(1, MsgPagination))
       ELSE IF rq.source.present /\ (rq.source.s = <<>> \/ srcs.none)
       THEN Returns(Json(1, MsgConference))
       ELSE IF years.exc # "" THEN Returns(Raised(years.exc))
       ELSE IF rq.year.present /\ (rq.year.s = <<>> \/ years.none)
       THEN Returns(Json(1, MsgYear))
       ELSE IF b.exc # "" THEN Returns(Raised(b.exc))
       ELSE Proceeds(b.sql, b.params, pg)

\* search_papers run from its first line to its return on a connection of
\* its own
search_papers(store, text, bound, lim, off) ==
    LET counted == Execute(TRUE, store, text, bound, 0)
        data_params == bound \o <<IntParam(lim), IntParam(off)>>
        fetched == Execute(TRUE, store, text, data_params, 2)
    IN IF store.fault = MsgCannotOpen THEN Json(1, MsgCannotOpen)
       ELSE IF counted.exc # "" THEN Outcome(counted)
       ELSE IF fetched.exc # "" THEN Outcome(fetched)
       ELSE SearchSuccess(Len(Matching(store.papers, text, bound)),
                          FetchRows(store, text, data_params))

\* get_info serving the request with no other request in progress
get_info(rq, store) ==
    LET l == GetInfoLocals(rq)
    IN IF l.response # NoResponse THEN l.response
       ELSE search_papers(store, l.where_clause, l.params, l.pagination.limit,
                          l.pagination.offset)

\* requests that end in each of the ways a request can end
ConcurrentRequests ==
    {[q |-> Q_SECURITY_OR_IOT, source |-> Given(S_CCS), year |-> Given(Y_2023_2024),
      offset |-> N_0, limit |-> N_10],
     [q |-> Q_A_OR_B_AND_C, source |-> Absent, year |-> Absent, offset |-> N_1,
      limit |-> N_2],
     [q |-> <<" ">>, source |-> Absent, year |-> Absent, offset |-> N_0, limit |-> N_MINUS_1],
     [q |-> <<"a", "+">>, source |-> Absent, year |-> Absent, offset |-> N_0, limit |-> N_10],
     [q |-> <<"+">>, source |-> Absent, year |-> Absent, offset |-> N_0, limit |-> N_10],
     [q |-> <<"a">>, source |-> Absent, year |-> Absent, offset |-> N_INT64_OVER,
      limit |-> N_10],
     [q |-> <<"a">>, source |-> Given(S_CCS_BOGUS), year |-> Absent, offset |-> N_0,
      limit |-> N_10]}

InitConc ==
    /\ \E rq \in ConcurrentRequests :
          /\ q = rq.q
          /\ source = rq.source
          /\ year = rq.year
          /\ offset = rq.offset
          /\ limit = rq.limit
    /\ \E rq \in ConcurrentRequests :
          peer = [NoPeer EXCEPT !.pc = "get_info", !.q = rq.q, !.source = rq.source,
                                !.year = rq.year, !.offset = rq.offset, !.limit = rq.limit]
    /\ db \in {STORE_TWO, STORE_FOUR, STORE_NO_TABLE}
    /\ ingest = NoIngest
    /\ pc = "validate_keyword"
    /\ scan = NoScan
    /\ error = NoError
    /\ pagination = NoPagination
    /\ source_list = PyNone
    /\ year_list = PyNone
    /\ keywords = <<>>
    /\ operators = <<>>
    /\ where_clause = <<>>
    /\ params = <<>>
    /\ open_conns = {}
    /\ paper_id = 0
    /\ previous = NoResponse
    /\ total = 0
    /\ calls = <<>>
    /\ response = NoResponse

\* what the steps of the other request leave alone
Mine ==
    <<Request, db, paper_id, previous, ingest, total, scan, error, pagination, source_list,
      year_list, keywords, operators, where_clause, params, calls, pc, response>>

\* the other request from its first line to its call of search_papers:
\* these lines read and write its own locals only
PeerGetInfo ==
    /\ peer.pc = "get_info"
    /\ LET l == GetInfoLocals(peer)
       IN peer' = IF l.response # NoResponse
                  THEN [peer EXCEPT !.pc = "done", !.response = l.response]
                  ELSE [peer EXCEPT !.pc = "search_papers",
                                    !.where_clause = l.where_clause,
                                    !.params = l.params,
                                    !.pagination = l.pagination]
    /\ UNCHANGED <<Mine, open_conns>>

\* the other request's with get_db_connection() as (conn, cursor)
PeerConnect ==
    /\ peer.pc = "search_papers"
    /\ IF db.fault = MsgCannotOpen
       THEN /\ peer' = [peer EXCEPT !.pc = "done", !.response = Json(1, MsgCannotOpen)]
            /\ UNCHANGED open_conns
       ELSE /\ peer' = [peer EXCEPT !.pc = "count"]
            /\ open_conns' = open_conns \cup {get_db_connection(PEER)}
    /\ UNCHANGED Mine

\* the other request's count statement
PeerCount ==
    /\ peer.pc = "count"
    /\ LET e == Execute(get_db_connection(PEER) \in open_conns, db, peer.where_clause,
                        peer.params, 0)
       IN IF e.exc # ""
          THEN /\ peer' = [peer EXCEPT !.pc = "done", !.response = Outcome(e)]
               /\ open_conns' = open_conns \ {get_db_connection(PEER)}
          ELSE /\ peer' = [peer EXCEPT !.pc = "fetch",
                               !.total = Len(Matching(db.papers, peer.where_clause,
                                                      peer.params))]
               /\ UNCHANGED open_conns
    /\ UNCHANGED Mine

\* the other request's data statement, return and conn.close()
PeerFetch ==
    /\ peer.pc = "fetch"
    /\ LET bound == peer.params \o <<IntParam(peer.pagination.limit),
                                      IntParam(peer.pagination.offset)>>
           e == Execute(get_db_connection(PEER) \in open_conns, db, peer.where_clause,
                        bound, 2)
       IN peer' = [peer EXCEPT
                      !.pc = "done",
                      !.response = IF e.exc # "" THEN Outcome(e)
                                   ELSE SearchSuccess(peer.total,
                                            FetchRows(db, peer.where_clause, bound))]
    /\ open_conns' = open_conns \ {get_db_connection(PEER)}
    /\ UNCHANGED Mine

NextConc ==
    \/ ValidateKeyword
    \/ ValidatePagination
    \/ ValidateConferences
    \/ ValidateYears
    \/ ParseKeywords
    \/ ScanIter
    \/ ScanReturn
    \/ BuildSearchQuery
    \/ SearchConnect
    \/ SearchCount
    \/ SearchFetch
    \/ PeerGetInfo
    \/ PeerConnect
    \/ PeerCount
    \/ PeerFetch

SpecConc == InitConc /\ [][NextConc]_vars

(***************************************************************************)
(* src/crawler/main.py save_to_database and src/crawler/dblp_cli.py        *)
(* save_papers_to_db: runs that save lists of papers, one after another    *)
(***************************************************************************)
MaxBatch == 2   \* papers in the list of one run: up to this many
MaxRuns == 2    \* runs one after another: up to this many

SAVE_TO_DATABASE == "save_to_database"
SAVE_PAPERS_TO_DB == "save_papers_to_db"

\* a key the dict of a paper lacks
Missing == [kind |-> "missing", text |-> <<>>, int |-> 0]

\* the dict of a paper: title, conference, year
PaperDict(title, conference, yr) == [title |-> title, conference |-> conference, year |-> yr]

T_A == TextParam(<<"A">>)
T_B == TextParam(<<"B">>)
V_CCS == TextParam(<<"C","C","S">>)
V_SP == TextParam(<<"S","P">>)

\* papers of one title at two venues, of another title, with the year as
\* a string, without a title key, with None for the venue
PaperDicts ==
    {PaperDict(T_A, V_CCS, IntParam(2023)),
     PaperDict(T_A, V_SP, IntParam(2023)),
     PaperDict(T_B, V_CCS, IntParam(2024)),
     PaperDict(T_A, V_CCS, TextParam(<<"2","0","2","3">>)),
     PaperDict(Missing, V_CCS, IntParam(2023)),
     PaperDict(T_B, NullValue, IntParam(2024))}

\* a value as a column of INTEGER affinity holds it: a string that reads
\* as an integer becomes the integer
IntegerAffinity(value) ==
    IF value.kind = "text" /\ value.text # <<>>
       /\ \A k \in DOMAIN value.text : IsDecimal(value.text[k])
    THEN IntParam(int(value.text))
    ELSE value

\* SELECT id FROM papers WHERE title = ? finds a row
TitlePresent(rows, paper) ==
    \E k \in DOMAIN rows : Eq3(TextParam(rows[k].title), paper.title) = "T"

\* SELECT id FROM papers WHERE title = ? AND conference = ? AND year = ?
\* finds a row
RecordPresent(rows, paper) ==
    \E k \in DOMAIN rows :
        /\ Eq3(TextParam(rows[k].title), paper.title) = "T"
        /\ Eq3(TextParam(rows[k].conference), paper.conference) = "T"
        /\ Eq3(IntParam(rows[k].year), IntegerAffinity(paper.year)) = "T"

\* a table without the UNIQUE of the title column
UniqueNotEnforced(rows, paper) == FALSE

\* title TEXT NOT NULL UNIQUE: the INSERT fails on a title a row has
UniqueViolated(rows, paper) == TitlePresent(rows, paper)

\* conference, year and title are NOT NULL
NotNullViolated(paper) ==
    paper.title.kind = "null" \/ paper.conference.kind = "null" \/ paper.year.kind = "null"

\* id INTEGER PRIMARY KEY AUTOINCREMENT
NextId(rows) == IF rows = <<>> THEN 1 ELSE rows[Len(rows)].id + 1

\* the row the INSERT adds: href, origin and bib are '' for a dict without
\* them, abstract and the columns not named are NULL
Inserted(rows, paper) ==
    [Paper(NextId(rows), paper.conference.text, IntegerAffinity(paper.year).int,
           paper.title.text, NULL)
        EXCEPT !.href = <<>>, !.origin = <<>>, !.bib = <<>>]

\* the body of the try for one paper: what it adds to stats and the rows
\* after it.  find is the SELECT of the path, keys the keys it reads.
SavePaper(store, paper, path) ==
    LET title_only == path = SAVE_TO_DATABASE
        select_keys == IF title_only THEN {paper.title}
                       ELSE {paper.title, paper.conference, paper.year}
        present == IF title_only THEN TitlePresent(store.papers, paper)
                   ELSE RecordPresent(store.papers, paper)
        counted(what) == [stat |-> what, papers |-> store.papers]
    IN IF Missing \in select_keys THEN counted("errors")
       ELSE IF store.fault # "" THEN counted("errors")
       ELSE IF present THEN counted("skipped")
       ELSE IF Missing \in {paper.title, paper.conference, paper.year}
       THEN counted("errors")
       ELSE IF NotNullViolated(paper) \/ UniqueViolated(store.papers, paper)
       THEN counted("errors")
       ELSE [stat |-> "added", papers |-> Append(store.papers, Inserted(store.papers, paper))]

\* what the steps of a run leave alone
Search ==
    <<Request, paper_id, previous, peer, total, scan, error, pagination, source_list,
      year_list, keywords, operators, where_clause, params, open_conns, calls, pc,
      response>>

\* a run is started with a list of papers: stats = {'added': 0, 'skipped':
\* 0, 'errors': 0}; conn = sqlite3.connect(db_path)
SaveStart ==
    /\ ingest.pc \in {"idle", "done"}
    /\ ingest.runs < MaxRuns
    /\ \E path \in {SAVE_TO_DATABASE, SAVE_PAPERS_TO_DB},
          papers \in Strs(PaperDicts, MaxBatch) :
          ingest' = [ingest EXCEPT !.pc = "loop", !.path = path, !.papers = papers,
                                   !.i = 1, !.stats = NoStats]
    /\ UNCHANGED <<Search, db>>

\* one pass of for paper in papers
SaveNext ==
    /\ ingest.pc = "loop"
    /\ ingest.i <= Len(ingest.papers)
    /\ LET r == SavePaper(db, ingest.papers[ingest.i], ingest.path)
       IN /\ db' = [db EXCEPT !.papers = r.papers]
          /\ ingest' = [ingest EXCEPT !.i = @ + 1, !.stats[r.stat] = @ + 1]
    /\ UNCHANGED Search

\* conn.commit(); conn.close(); return stats
SaveReturn ==
    /\ ingest.pc = "loop"
    /\ ingest.i > Len(ingest.papers)
    /\ ingest' = [ingest EXCEPT !.pc = "done", !.runs = @ + 1]
    /\ UNCHANGED <<Search, db>>

InitIngest ==
    /\ db \in {STORE_EMPTY, STORE_TWO, STORE_NO_TABLE,
                Database(<<Paper(1, <<"S","P">>, 2023, <<"A">>, NULL)>>)}
    /\ ingest = NoIngest
    /\ q = <<>>
    /\ source = Absent
    /\ year = Absent
    /\ offset = <<>>
    /\ limit = <<>>
    /\ pc = "idle"
    /\ scan = NoScan
    /\ error = NoError
    /\ pagination = NoPagination
    /\ source_list = PyNone
    /\ year_list = PyNone
    /\ keywords = <<>>
    /\ operators = <<>>
    /\ where_clause = <<>>
    /\ params = <<>>
    /\ open_conns = {}
    /\ paper_id = 0
    /\ previous = NoResponse
    /\ peer = NoPeer
    /\ total = 0
    /\ calls = <<>>
    /\ response = NoResponse

NextIngest == SaveStart \/ SaveNext \/ SaveReturn

SpecIngest == InitIngest /\ [][NextIngest]_vars

(***************************************************************************)
(* parse_keywords alone, over every string of the bound                    *)
(***************************************************************************)
ParseChars == {"a", "'", "+", "|", " "}

InitParse ==
    /\ q \in Strs(ParseChars, ParseMaxLen)
    /\ source = Absent
    /\ year = Absent
    /\ offset = <<>>
    /\ limit = <<>>
    /\ pc = "parse_keywords"
    /\ scan = NoScan
    /\ error = NoError
    /\ pagination = NoPagination
    /\ source_list = PyNone
    /\ year_list = PyNone
    /\ keywords = <<>>
    /\ operators = <<>>
    /\ where_clause = <<>>
    /\ params = <<>>
    /\ db = STORE_EMPTY
    /\ open_conns = {}
    /\ paper_id = 0
    /\ previous = NoResponse
    /\ peer = NoPeer
    /\ ingest = NoIngest
    /\ total = 0
    /\ calls = <<>>
    /\ response = NoResponse

NextParse == ParseKeywords \/ ScanIter \/ ScanReturn

SpecParse == InitParse /\ [][NextParse]_vars

\* the interpreter goes on running the function it is in
SpecParseFair == SpecParse /\ WF_vars(NextParse)

(***************************************************************************)
(* build_search_query over every argument list of the bound                *)
(***************************************************************************)
TermPool == {<<"a">>, <<"'", "%">>}
VenuePool == {<<"C","C","S">>, <<"S","P">>}
YearPool == {MIN_YEAR, MAX_YEAR}

BuildTermLists == Strs(TermPool, BuildMaxTerms)
BuildOpLists == Strs({OP_AND, OP_OR}, BuildMaxOps)
BuildVenueLists == {PyNone} \cup {PyList(l) : l \in Strs(VenuePool, BuildMaxFilter)}
BuildYearLists == {PyNone} \cup {PyList(l) : l \in Strs(YearPool, BuildMaxFilter)}

InitBuild ==
    /\ q = <<>>
    /\ source = Absent
    /\ year = Absent
    /\ offset = <<>>
    /\ limit = <<>>
    /\ pc = "build_search_query"
    /\ scan = NoScan
    /\ error = NoError
    /\ pagination = NoPagination
    /\ source_list \in BuildVenueLists
    /\ year_list \in BuildYearLists
    /\ keywords \in BuildTermLists
    /\ operators \in BuildOpLists
    /\ where_clause = <<>>
    /\ params = <<>>
    /\ db = STORE_EMPTY
    /\ open_conns = {}
    /\ paper_id = 0
    /\ previous = NoResponse
    /\ peer = NoPeer
    /\ ingest = NoIngest
    /\ total = 0
    /\ calls = <<>>
    /\ response = NoResponse

SpecBuild == InitBuild /\ [][BuildSearchQuery]_vars

(***************************************************************************)
(* Properties                                                              *)
(***************************************************************************)
Called(f) == \E k \in DOMAIN calls : calls[k] = f

\* the character class the keyword must be drawn from
AllowedKeywordChar(c) == IsWord(c) \/ isspace(c) \/ c \in {"+", "|"} \/ IsCJK(c)

\* a venue token that is in the allow-list once trimmed and lower-cased
VenueTokenOk(tok) == lower(strip(tok)) \in ALLOWED_CONFERENCES

\* a year token of exactly 4 decimal digits with a value in [2016, 2025]
YearTokenOk(tok) ==
    /\ Len(tok) = 4
    /\ \A k \in DOMAIN tok : IsDecimal(tok[k])
    /\ int(tok) >= 2016
    /\ int(tok) <= 2025

CharsetViolated == q # <<>> /\ \E k \in DOMAIN q : ~AllowedKeywordChar(q[k])
LengthViolated == Len(q) > 200
PaginationViolated == ~IntParses(offset) \/ ~IntParses(limit)
VenueViolated ==
    /\ source.present
    /\ \/ source.s = <<>>
       \/ \E tok \in Range(split(source.s, ",")) : ~VenueTokenOk(tok)
YearViolated ==
    /\ year.present
    /\ \/ year.s = <<>>
       \/ \E tok \in Range(split(year.s, ",")) : ~YearTokenOk(tok)

\* the position, in the order of the checks, of the first one the request
\* violates; 0 when it violates none
FirstViolated ==
    IF CharsetViolated THEN 1
    ELSE IF LengthViolated THEN 2
    ELSE IF PaginationViolated THEN 3
    ELSE IF VenueViolated THEN 4
    ELSE IF YearViolated THEN 5
    ELSE 0

RejectionMsg ==
    <<MsgKeywordFormat, MsgKeywordLong, MsgPagination, MsgConference, MsgYear>>

\* C1: parse_keywords returns one operator fewer than terms (none for no
\* terms): len(operators) = max(len(terms) - 1, 0), so "a++b" gives [a, b]
\* with the single operator and, and "" gives ([], []).
C1_OperatorsOneFewerThanTerms ==
    pc = "build_search_query" =>
        /\ Len(operators) = Max(Len(keywords) - 1, 0)
        /\ q = Q_A_PLUS_PLUS_B =>
              keywords = <<<<"a">>, <<"b">>>> /\ operators = <<OP_AND>>
        /\ q = <<>> => keywords = <<>> /\ operators = <<>>

\* C2: whatever q, s, y, offset and limit are, /search answers with a JSON
\* envelope whose code is 0 or 1; no exception leaves the handler.
C2_SearchAlwaysAnswersJson ==
    pc = "done" => response.exc = "" /\ response.code \in {0, 1}

\* the characters of the fixed fragments of the expression text
TemplateChars ==
    Range(TITLE) \cup Range(ABSTRACT) \cup Range(OP_AND) \cup Range(OP_OR)
    \cup {" ", "L", "I", "K", "E", "?", "1", "=", "(", ")", ",", "O", "R",
          "A", "N", "D", "c", "o", "n", "f", "e", "r", "y"}

\* C3: the expression text depends only on the number of terms, the
\* operators, the number of venue codes and the number of years: replacing
\* the terms, the venue codes or the years by others of the same number
\* gives the same text character for character; the text holds only
\* template characters, and every value is among the bound values.
C3_ExpressionIndependentOfValues ==
    pc = "search_papers" =>
        /\ \A kws2 \in BuildTermLists :
              Len(kws2) = Len(keywords) =>
                build_search_query(kws2, operators, source_list, year_list).sql
                    = where_clause
        /\ \A srcs2 \in BuildVenueLists :
              Len(srcs2.list) = Len(source_list.list) =>
                build_search_query(keywords, operators, srcs2, year_list).sql
                    = where_clause
        /\ \A yrs2 \in BuildYearLists :
              Len(yrs2.list) = Len(year_list.list) =>
                build_search_query(keywords, operators, source_list, yrs2).sql
                    = where_clause
        /\ Range(where_clause) \subseteq TemplateChars
        /\ \A k \in DOMAIN keywords : LikeParam(keywords[k]) \in Range(params)
        /\ \A k \in DOMAIN source_list.list :
              TextParam(source_list.list[k]) \in Range(params)
        /\ \A k \in DOMAIN year_list.list :
              IntParam(year_list.list[k]) \in Range(params)

\* two terms with characters foreign to the template, a venue and a year,
\* compiled
C3_Witness ==
    /\ pc = "search_papers"
    /\ keywords = <<<<"'", "%">>, <<"a">>>>
    /\ operators = <<OP_OR>>
    /\ source_list = PyList(<<<<"S","P">>>>)
    /\ year_list = PyList(<<MAX_YEAR>>)
    /\ CountPlaceholders(where_clause) = 6
    /\ Len(params) = 6

\* what get_info tests after each validator to reject the request
KeywordRejects == ~validate_keyword(q).none
PaginationRejects == validate_pagination(offset, limit).none
VenueRejects == source.present /\ (source.s = <<>> \/ validate_conferences(source).none)
YearRejects == year.present /\ (year.s = <<>> \/ validate_years(year).none)

\* C4: when a keyword, pagination, venue or year validation rejects the
\* request, parse_keywords, build_search_query and search_papers are never
\* invoked: no predicate is built and no connection is opened.
C4_NoQueryOnRejection ==
    (KeywordRejects \/ PaginationRejects \/ VenueRejects \/ YearRejects) =>
        /\ ~Called("parse_keywords")
        /\ ~Called("build_search_query")
        /\ ~Called("search_papers")
        /\ where_clause = <<>>
        /\ params = <<>>
        /\ ~conn_open

\* "ccs,bogus" rejected after the venue check, nothing compiled or executed
C4_Witness ==
    /\ pc = "done"
    /\ source = Given(S_CCS_BOGUS)
    /\ response = Json(1, MsgConference)
    /\ calls = <<"validate_keyword", "validate_pagination", "validate_conferences">>

C6_AcceptedPaginationInRange ==
    (Called("validate_pagination") /\ ~pagination.none) =>
        /\ pagination.offset >= 0
        /\ pagination.limit >= 1
        /\ pagination.limit <= 100

\* C7: validate_pagination rejects exactly when offset or limit is no int()
\* literal; otherwise a negative offset becomes 0, a limit above 100
\* becomes 100, and a value in range is returned unchanged.
C7_PaginationClamp ==
    Called("validate_pagination") =>
        /\ pagination.none <=> (~IntParses(offset) \/ ~IntParses(limit))
        /\ pagination.none => pc = "done" /\ response = Json(1, MsgPagination)
        /\ ~pagination.none =>
              /\ pagination.offset = (IF int(offset) < 0 THEN 0 ELSE int(offset))
              /\ pagination.limit = (IF int(limit) > 100 THEN 100 ELSE int(limit))
              /\ response # Json(1, MsgPagination)

\* offset "-5" raised to 0 and limit "500" lowered to 100
C7_Witness ==
    /\ offset = N_MINUS_5
    /\ limit = N_500
    /\ Called("validate_pagination")
    /\ pagination = [none |-> FALSE, offset |-> 0, limit |-> 100]

\* C8: validate_keyword passes the empty string; rejects as invalid format
\* a non-empty q with a character outside word characters, whitespace, +,
\* | and the CJK range; otherwise rejects as too long exactly when
\* len(q) > 200; otherwise passes.
C8_KeywordDecision ==
    Called("validate_keyword") =>
        /\ error = (IF q = <<>> THEN [none |-> TRUE, msg |-> ""]
                    ELSE IF \E k \in DOMAIN q : ~AllowedKeywordChar(q[k])
                    THEN [none |-> FALSE, msg |-> MsgKeywordFormat]
                    ELSE IF Len(q) > 200
                    THEN [none |-> FALSE, msg |-> MsgKeywordLong]
                    ELSE [none |-> TRUE, msg |-> ""])
        /\ ~error.none => pc = "done" /\ response = Json(1, error.msg)
        /\ error.none => pc # "validate_keyword" /\ response.msg \notin
                                {MsgKeywordFormat, MsgKeywordLong}

\* a q of 200 allowed characters has passed the keyword check
C8_Witness ==
    /\ Len(q) = 200
    /\ \A k \in DOMAIN q : AllowedKeywordChar(q[k])
    /\ Called("validate_keyword")
    /\ error.none
    /\ pc = "validate_pagination"

\* C9: a non-empty s is accepted iff every comma-separated token, trimmed
\* and lower-cased, is in the allow-list; the filter is then those tokens
\* in upper case in input order; one unknown token rejects the whole
\* request as invalid venue and no venue subset is applied.
C9_VenueAllOrNothing ==
    (Called("validate_conferences") /\ source.present /\ source.s # <<>>) =>
        LET toks == split(source.s, ",")
        IN IF \A k \in DOMAIN toks : VenueTokenOk(toks[k])
           THEN /\ source_list = PyList([k \in DOMAIN toks |-> upper(lower(strip(toks[k])))])
                /\ response # Json(1, MsgConference)
           ELSE /\ source_list = PyNone
                /\ pc = "done"
                /\ response = Json(1, MsgConference)
                /\ where_clause = <<>>
                /\ params = <<>>

\* "CCS, sp" accepted as [CCS, SP]
C9_Witness ==
    /\ source = Given(S_CCS_SP)
    /\ Called("validate_conferences")
    /\ source_list = PyList(<<<<"C","C","S">>, <<"S","P">>>>)
    /\ pc = "validate_years"

\* C10: a non-empty y is accepted iff every comma-separated token is
\* exactly 4 numeric characters with a value in [2016, 2025]; the filter is
\* then the tokens' values in input order; any other token rejects the
\* whole request as invalid year.
C10_YearFilterDecision ==
    (Called("validate_years") /\ year.present /\ year.s # <<>>) =>
        LET toks == split(year.s, ",")
        IN IF \A k \in DOMAIN toks : YearTokenOk(toks[k])
           THEN /\ year_list = PyList([k \in DOMAIN toks |-> int(toks[k])])
                /\ response # Json(1, MsgYear)
           ELSE /\ pc = "done"
                /\ response = Json(1, MsgYear)

\* whether text holds frag
Contains(text, frag) ==
    \E k \in 1..(Len(text) - Len(frag) + 1) : SubSeq(text, k, k + Len(frag) - 1) = frag

\* the number of places of text where frag stands
Occurrences(text, frag) ==
    Cardinality({k \in 1..(Len(text) - Len(frag) + 1) :
                    SubSeq(text, k, k + Len(frag) - 1) = frag})

CONFERENCE_IN == CONFERENCE \o <<" ","I","N">>
YEAR_IN == YEAR \o <<" ","I","N">>

\* C11: s or y present but empty is rejected as invalid venue or invalid
\* year; s or y absent is no filter: the request goes on to the next check
\* and the expression compiled holds no IN condition on that column.
C11_EmptyRejectedAbsentNoFilter ==
    /\ (Called("validate_conferences") /\ source = Given(<<>>)) =>
          pc = "done" /\ response = Json(1, MsgConference)
    /\ (Called("validate_years") /\ year = Given(<<>>)) =>
          pc = "done" /\ response = Json(1, MsgYear)
    /\ (Called("validate_conferences") /\ ~source.present) =>
          /\ pc = "validate_years" \/ Called("validate_years")
          /\ source_list = PyNone
          /\ response # Json(1, MsgConference)
          /\ ~Contains(where_clause, CONFERENCE_IN)
    /\ (Called("validate_years") /\ ~year.present) =>
          /\ pc = "parse_keywords" \/ Called("parse_keywords")
          /\ year_list = PyNone
          /\ response # Json(1, MsgYear)
          /\ ~Contains(where_clause, YEAR_IN)

\* absent s passed on, empty y rejected
C11_Witness ==
    /\ pc = "done"
    /\ source = Absent
    /\ year = Given(<<>>)
    /\ Called("validate_years")
    /\ response = Json(1, MsgYear)

\* absent s and y, searched without an IN condition
C11_WitnessNoFilter ==
    /\ pc = "done"
    /\ source = Absent
    /\ year = Absent
    /\ response.code = 0
    /\ where_clause = <<"(","(">> \o LikeCondition(<<"a">>, TITLE) \o <<")"," ","O","R"," ","(">>
                          \o LikeCondition(<<"a">>, ABSTRACT) \o <<")",")">>

\* whether the search ended in the success envelope
Succeeded == pc = "done" /\ Called("search_papers") /\ response.code = 0

\* ((m[1] o[1] m[2]) o[2] m[3]) ...: the operators applied left to right,
\* from operator k on, acc being the value so far
RECURSIVE LeftFold(_, _, _, _)
LeftFold(ms, ops, k, acc) ==
    IF k > Len(ops) \/ k + 1 > Len(ms) THEN acc
    ELSE LeftFold(ms, ops, k + 1,
                  IF ops[k] = OP_AND THEN And3(acc, ms[k + 1]) ELSE Or3(acc, ms[k + 1]))

\* the chain of one field read left to right; m[k] is field LIKE %term k%
FieldChain(row, field_name) ==
    LET ms == [k \in DOMAIN keywords |->
                  Like3(ColumnValue(row, field_name), LikeParam(keywords[k]))]
    IN IF keywords = <<>> THEN "T" ELSE LeftFold(ms, operators, 1, ms[1])

\* the venue and year filters of the request
FiltersSelect(row) ==
    /\ Truthy(source_list) => row.conference \in Range(source_list.list)
    /\ Truthy(year_list) => row.year \in Range(year_list.list)

\* the records a strictly left-to-right reading selects
LeftToRightSelects(row) ==
    /\ Or3(FieldChain(row, TITLE), FieldChain(row, ABSTRACT)) = "T"
    /\ FiltersSelect(row)

\* C12: the operators of the query apply strictly left to right, AND never
\* binding tighter than OR: a successful search counts and returns exactly
\* the records for which the left fold of a field chain is true, so
\* "a|b+c" selects the records matching (a OR b) AND c.
C12_OperatorsLeftToRight ==
    Succeeded =>
        /\ response.total =
              Cardinality({k \in DOMAIN db.papers : LeftToRightSelects(db.papers[k])})
        /\ \A k \in DOMAIN response.rows : LeftToRightSelects(response.rows[k])

ALWAYS_TRUE == <<"(","(","1","=","1",")"," ","O","R"," ","(","1","=","1",")",")">>

BlankUnfiltered == strip(q) = <<>> /\ ~source.present /\ ~year.present

\* C13: an empty term list compiles to 1=1 for both fields, so a search
\* with an empty or all-blank q and neither s nor y matches every record:
\* total is the number of records of the store, not 0 unless it is empty.
C13_BlankQueryMatchesAll ==
    BlankUnfiltered =>
        /\ Called("build_search_query") =>
              /\ keywords = <<>>
              /\ where_clause = ALWAYS_TRUE
              /\ params = <<>>
        /\ pc \in {"fetch", "done"} /\ Called("search_papers") =>
              total = Len(db.papers)
        /\ pc = "done" /\ Called("search_papers") /\ response.exc = "" =>
              /\ response.code = 0
              /\ response.total = Len(db.papers)
              /\ db.papers # <<>> => response.total > 0

\* q = " " against the store of two records: total 2
C13_Witness ==
    /\ pc = "done"
    /\ q = <<" ">>
    /\ BlankUnfiltered
    /\ db = STORE_TWO
    /\ response.code = 0
    /\ response.total = 2

\* the stored records the compiled expression selects
Satisfying == {k \in DOMAIN db.papers : Selects(where_clause, db.papers[k], params)}

\* C14: in a successful search total is the number of stored records that
\* satisfy the expression, whatever limit and offset are; rows is the page
\* of those records in year-descending order that starts at position
\* offset and holds at most limit records: every row satisfies the
\* expression, no record comes twice, years do not increase, the page is
\* as long as limit and the records left allow, the records ahead of the
\* page are offset many, and total >= offset + len(rows) for a non-empty
\* page.
C14_TotalAndPage ==
    Succeeded =>
        LET rows == response.rows
            n == Len(rows)
        IN /\ response.total = Cardinality(Satisfying)
           /\ \A k \in DOMAIN rows : \E j \in Satisfying : rows[k] = db.papers[j]
           /\ \A j, k \in DOMAIN rows : j # k => rows[j].id # rows[k].id
           /\ \A k \in 1..(n - 1) : rows[k].year >= rows[k + 1].year
           /\ n <= pagination.limit
           /\ n = Min(pagination.limit, Max(response.total - pagination.offset, 0))
           /\ n > 0 =>
                 /\ response.total >= pagination.offset + n
                 /\ Cardinality({j \in Satisfying : db.papers[j].year > rows[1].year})
                        <= pagination.offset
                 /\ Cardinality({j \in Satisfying : db.papers[j].year >= rows[1].year})
                        > pagination.offset

\* the values bound to the data statement of the direct call
DataParams == params \o <<IntParam(pagination.limit), IntParam(pagination.offset)>>

\* whether the count or the data statement of the direct call fails
SearchStorageFails ==
    \/ db.fault # ""
    \/ Execute(TRUE, db, where_clause, params, 0).exc # ""
    \/ Execute(TRUE, db, where_clause, DataParams, 2).exc # ""

\* whether the statement of get_paper_abstract fails
AbstractStorageFails ==
    \/ db.fault # ""
    \/ Execute(TRUE, db, ABSTRACT_WHERE, <<IntParam(paper_id)>>, 0).exc # ""

FailureEnvelope ==
    /\ response.exc = ""
    /\ response.keys = {"code", "msg"}
    /\ response.code = 1
    /\ response.msg # ""

\* C15: a storage failure in the count or the fetch statement of
\* search_papers, or in the statement of get_paper_abstract (malformed
\* expression, binding count mismatch, engine error, value that cannot be
\* bound), is caught and returned as {code: 1, msg} without rows or total;
\* no exception leaves the function.
C15_StorageFailureIsEnvelope ==
    pc = "done" =>
        /\ response.exc = ""
        /\ calls[1] = "search_papers" /\ SearchStorageFails => FailureEnvelope
        /\ calls[1] = "get_paper_abstract" /\ AbstractStorageFails => FailureEnvelope

\* the failures other than a value that cannot be bound are all caught
C15_SqliteErrorsCaught ==
    pc = "done" /\ response.exc = "" =>
        /\ calls[1] = "search_papers" /\ SearchStorageFails => FailureEnvelope
        /\ calls[1] = "get_paper_abstract" /\ AbstractStorageFails => FailureEnvelope

\* C16: search_papers and get_paper_abstract only read: no step of either
\* changes the paper records, whether the call succeeds or fails, and the
\* same call made again on the same store ends in the same outcome.
C16_ReadOnlyIdempotent ==
    [][/\ db' = db
       /\ pc' = "done" /\ previous' # NoResponse => response' = previous']_vars

\* a search repeated that returned records both times
C16_Witness ==
    /\ pc = "done"
    /\ calls = <<"search_papers", "search_papers">>
    /\ previous # NoResponse
    /\ response = previous
    /\ response.code = 0
    /\ response.rows # <<>>

\* a keyword occurs in the title or the abstract, and the venue and the year
\* are in the filters
AnyKeywordSelects(row) ==
    /\ \E k \in DOMAIN keywords, f \in {TITLE, ABSTRACT} :
          Like3(ColumnValue(row, f), LikeParam(keywords[k])) = "T"
    /\ FiltersSelect(row)

\* C18: end to end, OR-ed keywords with venue and year filters return the
\* records whose title or abstract contains a keyword and whose venue and
\* year are in the filters: q = "security|iot", s = "ccs", y = "2023,2024"
\* on a store holding "IoT Security Survey" (CCS, 2023) and "Graph Theory"
\* (CCS, 2023) gives total 1 and the first record alone, the lowercase
\* keywords matching the mixed-case title.
C18_EndToEnd ==
    /\ Succeeded /\ keywords # <<>> /\ (\A k \in DOMAIN operators : operators[k] = OP_OR)
       => /\ response.total =
                Cardinality({k \in DOMAIN db.papers : AnyKeywordSelects(db.papers[k])})
          /\ \A k \in DOMAIN response.rows : AnyKeywordSelects(response.rows[k])
    /\ /\ q = Q_SECURITY_OR_IOT
       /\ source = Given(S_CCS)
       /\ year = Given(Y_2023_2024)
       /\ db = STORE_TWO
       /\ pc = "done"
       => /\ response.code = 0
          /\ response.total = 1
          /\ pagination.limit >= 1 /\ pagination.offset = 0 => response.rows = <<P_IOT>>
          /\ \A k \in DOMAIN response.rows : response.rows[k] = P_IOT

\* the request of C18 answered with the one record
C18_Witness ==
    /\ q = Q_SECURITY_OR_IOT
    /\ source = Given(S_CCS)
    /\ year = Given(Y_2023_2024)
    /\ db = STORE_TWO
    /\ pc = "done"
    /\ response = SearchSuccess(1, <<P_IOT>>)
    /\ P_IOT.title = <<"I","o","T"," ","S","e","c","u","r","i","t","y"," ","S","u","r","v","e","y">>

\* whether the path parameter is an int() literal greater than 0
ValidPaperId == IntParses(q) /\ int(q) > 0

\* C19: GET /abstract/<id> reaches storage only for an id that parses as an
\* integer greater than 0; any other id is answered {code: 1, msg: Invalid
\* paper id} without get_paper_abstract being called or a connection being
\* opened, and a valid id that no record has is answered code 0 with an
\* empty data list.
C19_AbstractIdValidation ==
    /\ Called("get_paper_abstract") \/ open_conns # {} => ValidPaperId
    /\ pc = "done" /\ ~ValidPaperId =>
          /\ response = Json(1, MsgPaperId)
          /\ calls = <<"get_abs">>
    /\ /\ pc = "done"
       /\ ValidPaperId
       /\ db.fault = ""
       /\ \A k \in DOMAIN db.papers : db.papers[k].id # int(q)
       => response = AbstractSuccess(<<>>)

\* the claim for ids that fit SQLite's INTEGER
C19_WithinInt64 ==
    (IntParses(q) => FitsSqliteInteger(int(q))) => C19_AbstractIdValidation

LIKE_PLACEHOLDER == <<" ","L","I","K","E"," ","?">>

\* the operators standing in the compiled text, each between two blanks
JoinedOperators(text) ==
    Occurrences(text, <<" ">> \o OP_AND \o <<" ">>) + Occurrences(text, <<" ">> \o OP_OR \o <<" ">>)

\* whether parse_keywords returned at least as many operators as terms
Misaligned == Len(operators) >= Len(keywords)

\* C20: for every pair of lists parse_keywords can return, those with as
\* many operators as terms or more included ("a++b", "+a", "a+", "+"),
\* build_search_query returns without raising and each of the two field
\* chains holds len(terms) LIKE conditions joined by max(len(terms) - 1, 0)
\* operators, none of the conditions standing for an empty term.
C20_BuilderRestoresAlignment ==
    Called("build_search_query") =>
        /\ ~(pc = "done" /\ response.exc = "IndexError")
        /\ pc # "done" \/ Called("search_papers") =>
              /\ Occurrences(where_clause, LIKE_PLACEHOLDER) = 2 * Len(keywords)
              /\ JoinedOperators(where_clause) = 2 * Max(Len(keywords) - 1, 0)
              /\ \A k \in DOMAIN params : params[k] # LikeParam(<<>>)

\* the claim for the lists with fewer operators than terms
C20_Aligned == Misaligned \/ C20_BuilderRestoresAlignment

\* the request the handler's own variables hold
ThisRequest ==
    [q |-> q, source |-> source, year |-> year, offset |-> offset, limit |-> limit]

\* C17: two /search requests whose steps interleave in any order over an
\* unchanged store each end with the response the request gets when it is
\* served alone: the requests share no mutable state.
C17_ConcurrentAsAlone ==
    /\ pc = "done" => response = get_info(ThisRequest, db)
    /\ peer.pc = "done" => peer.response = get_info(peer, db)

\* both requests answered with records, the connection of the other still
\* open when this one finished
C17_Witness ==
    /\ pc = "done"
    /\ peer.pc = "done"
    /\ response.code = 0 /\ response.rows # <<>>
    /\ peer.response.code = 0 /\ peer.response.rows # <<>>
    /\ peer.response # response

\* the two requests inside search_papers at the same time
C17_WitnessOverlap ==
    /\ pc \in {"count", "fetch"}
    /\ peer.pc \in {"count", "fetch"}
    /\ Cardinality(open_conns) = 2

\* the positions of the placeholders of text, from the left
PlaceholderAt(text, i) ==
    CHOOSE k \in DOMAIN text :
        /\ text[k] = "?"
        /\ Cardinality({j \in 1..k : text[j] = "?"}) = i

\* the column whose condition the character at position k of text is in
ColumnBefore(text, k) ==
    LET starts(f) == {j \in 1..(k - Len(f)) : SubSeq(text, j, j + Len(f) - 1) = f}
        last(f) == IF starts(f) = {} THEN 0
                   ELSE CHOOSE j \in starts(f) : \A o \in starts(f) : o <= j
    IN CHOOSE f \in {TITLE, ABSTRACT, CONFERENCE, YEAR} :
           \A g \in {TITLE, ABSTRACT, CONFERENCE, YEAR} : last(g) <= last(f)

\* whether value is one the request supplies for the column
ValueOfColumn(value, column) ==
    IF column \in {TITLE, ABSTRACT}
    THEN \E k \in DOMAIN keywords : value = TextParam(<<"%">> \o keywords[k] \o <<"%">>)
    ELSE IF column = CONFERENCE
    THEN \E k \in DOMAIN source_list.list : value = TextParam(source_list.list[k])
    ELSE \E k \in DOMAIN year_list.list : value = IntParam(year_list.list[k])

\* whether build_search_query has returned its pair to get_info
Built == Called("build_search_query") /\ ~(pc = "done" /\ ~Called("search_papers"))

\* C21: in every pair build_search_query returns for the lists of
\* parse_keywords and the venue and year lists, the expression holds as
\* many ? as there are bound values, and the i-th ? from the left stands
\* in a condition on the column the i-th value is for.
C21_PlaceholdersMatchValues ==
    Built =>
        /\ CountPlaceholders(where_clause) = Len(params)
        /\ \A i \in 1..Min(CountPlaceholders(where_clause), Len(params)) :
              ValueOfColumn(params[i], ColumnBefore(where_clause, PlaceholderAt(where_clause, i)))

\* the claim for the lists with fewer operators than terms
C21_Aligned == Misaligned \/ C21_PlaceholdersMatchValues

NotAChain == <<"not a chain">>
ONE_EQUALS_ONE == <<"1","=","1">>

\* the operators of the chain that text holds from position k on: x LIKE ?
\* conditions on field with one of the two operators, between blanks,
\* from one to the next; NotAChain if text is not of that form
RECURSIVE ChainOperators(_, _, _)
ChainOperators(text, field, k) ==
    LET condition == field \o LIKE_PLACEHOLDER
        e == k + Len(condition)
        op == IF e + Len(OP_AND) + 1 <= Len(text)
                 /\ SubSeq(text, e, e + Len(OP_AND) + 1) = <<" ">> \o OP_AND \o <<" ">>
              THEN OP_AND
              ELSE IF e + Len(OP_OR) + 1 <= Len(text)
                 /\ SubSeq(text, e, e + Len(OP_OR) + 1) = <<" ">> \o OP_OR \o <<" ">>
              THEN OP_OR
              ELSE <<>>
        rest == ChainOperators(text, field, e + Len(op) + 2)
    IN IF e - 1 > Len(text) \/ SubSeq(text, k, e - 1) # condition THEN NotAChain
       ELSE IF e - 1 = Len(text) THEN <<>>
       ELSE IF op = <<>> \/ rest = NotAChain THEN NotAChain
       ELSE <<op>> \o rest

\* the chain of a field: 1=1, or conditions joined by operators
Chain(text, field) ==
    IF text = ONE_EQUALS_ONE THEN <<ONE_EQUALS_ONE>> ELSE ChainOperators(text, field, 1)

\* the first position from k on where text holds c, 0 if there is none
FirstAt(text, c, k) ==
    IF \E j \in k..Len(text) : text[j] = c
    THEN CHOOSE j \in k..Len(text) : text[j] = c /\ \A o \in k..(j - 1) : text[o] # c
    ELSE 0

\* ?,?,..,? with n placeholders
QuestionMarks(n) == [k \in 1..(2 * n - 1) |-> IF k % 2 = 1 THEN "?" ELSE ","]

\* " AND column IN (?,..)" for a list given, nothing for none
InFilter(column, lst) ==
    IF lst.none \/ lst.list = <<>> THEN <<>>
    ELSE <<" ","A","N","D"," ">> \o column \o <<" ","I","N"," ","(">>
         \o QuestionMarks(Len(lst.list)) \o <<")">>

OR_BETWEEN == <<")"," ","O","R"," ","(">>

\* C22: the expression build_search_query returns is ((title chain) OR
\* (abstract chain)), the two chains alike, then " AND conference IN (?,..)"
\* with a placeholder per venue iff venues are given, then " AND year IN
\* (?,..)" with a placeholder per year iff years are given; the values are
\* "%term%" per term, the same again, the venues, the years, in this
\* order, the term inside the two % as it is, its % and _ not escaped.
C22_ExpressionShape ==
    pc = "search_papers" =>
        LET text == where_clause
            close1 == FirstAt(text, ")", 1)
            close2 == FirstAt(text, ")", close1 + Len(OR_BETWEEN))
            title_chain == SubSeq(text, 3, close1 - 1)
            abstract_chain == SubSeq(text, close1 + Len(OR_BETWEEN), close2 - 1)
            wrapped == [k \in DOMAIN keywords |-> TextParam(<<"%">> \o keywords[k] \o <<"%">>)]
        IN /\ close1 > 3 /\ close2 > close1 + Len(OR_BETWEEN)
           /\ SubSeq(text, 1, 2) = <<"(", "(">>
           /\ SubSeq(text, close1, close1 + Len(OR_BETWEEN) - 1) = OR_BETWEEN
           /\ close2 + 1 <= Len(text) /\ text[close2 + 1] = ")"
           /\ Chain(title_chain, TITLE) # NotAChain
           /\ Chain(abstract_chain, ABSTRACT) = Chain(title_chain, TITLE)
           /\ Len(operators) + 1 = Len(keywords) => Chain(title_chain, TITLE) = operators
           /\ keywords = <<>> /\ operators = <<>> =>
                 Chain(title_chain, TITLE) = <<ONE_EQUALS_ONE>>
           /\ SubSeq(text, close2 + 2, Len(text))
                 = InFilter(CONFERENCE, source_list) \o InFilter(YEAR, year_list)
           /\ params
                 = wrapped \o wrapped
                   \o [k \in DOMAIN source_list.list |-> TextParam(source_list.list[k])]
                   \o [k \in DOMAIN year_list.list |-> IntParam(year_list.list[k])]

\* two terms, one of them with a % of its own, a venue and a year, compiled
C22_Witness ==
    /\ pc = "search_papers"
    /\ keywords = <<<<"a">>, <<"'", "%">>>>
    /\ operators = <<OP_OR>>
    /\ source_list = PyList(<<<<"C","C","S">>>>)
    /\ year_list = PyList(<<MIN_YEAR>>)
    /\ params[2] = TextParam(<<"%", "'", "%", "%">>)
    /\ Len(params) = 6

Delimiters == {"+", "|"}

\* the positions of the delimiters among the first n characters of qs, and
\* the j-th of them from the left (0 and Len(qs) + 1 stand at the two ends)
DelimiterPositions(qs, n) == {k \in 1..n : qs[k] \in Delimiters}
Boundary(qs, j) ==
    IF j = 0 THEN 0
    ELSE IF j > Cardinality(DelimiterPositions(qs, Len(qs))) THEN Len(qs) + 1
    ELSE CHOOSE k \in DelimiterPositions(qs, Len(qs)) :
             Cardinality(DelimiterPositions(qs, k)) = j

\* the operators of the delimiters among the first n characters of qs
DelimiterOperators(qs, n) ==
    [j \in 1..Cardinality(DelimiterPositions(qs, n)) |->
        IF qs[Boundary(qs, j)] = "+" THEN OP_AND ELSE OP_OR]

\* C23: parse_keywords records one operator per delimiter character, in
\* the order of the delimiters, "and" for + and "or" for |: as many
\* operators as q has + and | characters, also next to an empty term,
\* where the operator is recorded and no term is.
C23_OneOperatorPerDelimiter ==
    /\ pc = "scan" =>
          scan.operator = DelimiterOperators(q, Min(scan.i, Len(q)))
    /\ pc = "build_search_query" =>
          /\ operators = DelimiterOperators(q, Len(q))
          /\ Len(operators) = Cardinality({k \in DOMAIN q : q[k] \in Delimiters})
          /\ \A k \in DOMAIN keywords : keywords[k] # <<>>

\* "a+|a" parsed: two operators for the two delimiters, two terms
C23_Witness ==
    /\ pc = "build_search_query"
    /\ q = <<"a", "+", "|", "a">>
    /\ operators = <<OP_AND, OP_OR>>
    /\ keywords = <<<<"a">>, <<"a">>>>

\* the segments of qs between its delimiters, each trimmed, the empty ones
\* left out
TrimmedSegments(qs) ==
    LET n == Cardinality(DelimiterPositions(qs, Len(qs)))
        segments == [j \in 1..(n + 1) |->
                        strip(SubSeq(qs, Boundary(qs, j - 1) + 1, Boundary(qs, j) - 1))]
    IN SelectSeq(segments, LAMBDA seg : seg # <<>>)

\* C24: the terms parse_keywords returns are the trimmed, non-empty
\* segments of q between delimiters, from left to right: no term is empty,
\* starts or ends with whitespace or holds a + or a |, and an empty or
\* all-blank q has no terms.
C24_TermsAreTrimmedSegments ==
    pc = "build_search_query" =>
        /\ keywords = TrimmedSegments(q)
        /\ \A k \in DOMAIN keywords :
              LET term == keywords[k]
              IN /\ term # <<>>
                 /\ ~isspace(term[1]) /\ ~isspace(term[Len(term)])
                 /\ \A j \in DOMAIN term : term[j] \notin Delimiters
        /\ (\A k \in DOMAIN q : isspace(q[k])) => keywords = <<>>

\* " a|a " parsed: the blanks around the two terms gone
C24_Witness ==
    /\ pc = "build_search_query"
    /\ q = <<" ", "a", "|", "a">>
    /\ keywords = <<<<"a">>, <<"a">>>>

\* C25: parse_keywords is total: for every q, the empty string and strings
\* of delimiters or blanks included, every pass of the loop moves i on by
\* one, the loop is left after len(q) + 1 passes and the two lists are
\* returned, nothing being raised.
C25_ParseTerminates ==
    /\ [][pc = "scan" =>
            IF scan.i <= Len(q)
            THEN pc' = "scan" /\ scan'.i = scan.i + 1
            ELSE pc' = "build_search_query" /\ response' = NoResponse]_vars
    /\ [](pc = "scan" => scan.i <= Len(q) + 1)
    /\ [](pc = "build_search_query" => scan.i = Len(q) + 1)
    /\ <>(pc = "build_search_query" /\ response.exc = "")

\* a string of delimiters and blanks parsed to the end
C25_Witness ==
    /\ pc = "build_search_query"
    /\ q = <<"+", " ", "|", " ">>
    /\ scan.i = 5
    /\ keywords = <<>>
    /\ operators = <<OP_AND, OP_OR>>

\* C26: the connection get_db_connection opens is closed on every way
\* out of search_papers and get_paper_abstract: after the return, after
\* an error of the storage engine in a statement, after any other
\* exception raised inside the with block; a connection is open inside
\* the with block only, and none is open once the call has returned or
\* raised.
C26_ConnectionAlwaysClosed ==
    /\ pc = "done" => open_conns = {}
    /\ pc \in {"search_papers", "get_paper_abstract"} => open_conns = {}
    /\ open_conns # {} =>
          /\ pc \in {"count", "fetch", "select"}
          /\ open_conns = {get_db_connection(MAIN)}

\* search_papers left by an OverflowError, its connection closed
C26_Witness ==
    /\ pc = "done"
    /\ calls = <<"search_papers">>
    /\ response.exc = "OverflowError"
    /\ open_conns = {}

\* a statement failing with an error of the storage engine while its
\* connection is open
C26_WitnessOpen ==
    /\ pc = "count"
    /\ open_conns = {get_db_connection(MAIN)}
    /\ Execute(TRUE, db, where_clause, params, 0).exc = "sqlite3.Error"

\* C27: a /search request that succeeds returns at most MAX_LIMIT records
\* in rows, whatever limit the client sent that int() reads, 0 and the
\* negative ones included.
C27_RowsWithinMaxLimit ==
    Succeeded => Len(response.rows) <= MAX_LIMIT

\* the claim for the limits that are not negative
C27_NonNegativeLimit == pagination.limit < 0 \/ C27_RowsWithinMaxLimit

\* no two records with one title; no two with one title, venue and year
TitlesUnique ==
    \A j, k \in DOMAIN db.papers : j # k => db.papers[j].title # db.papers[k].title
RecordsUnique ==
    \A j, k \in DOMAIN db.papers :
        j # k => <<db.papers[j].title, db.papers[j].conference, db.papers[j].year>>
                   # <<db.papers[k].title, db.papers[k].conference, db.papers[k].year>>

\* the paper of the pass about to run, and whether the store has it: by
\* its title in save_to_database, by title, venue and year in
\* save_papers_to_db
ThisPaper == ingest.papers[ingest.i]
AlreadyPresent ==
    /\ db.fault = ""
    /\ \E k \in DOMAIN db.papers :
          /\ ThisPaper.title = TextParam(db.papers[k].title)
          /\ ingest.path = SAVE_PAPERS_TO_DB =>
                /\ ThisPaper.conference = TextParam(db.papers[k].conference)
                /\ IntegerAffinity(ThisPaper.year) = IntParam(db.papers[k].year)

StatsSum(stats) == stats.added + stats.skipped + stats.errors

\* a pass for a paper the store has counts it as skipped; a pass that
\* counts a paper as skipped leaves the rows as they are; a pass that
\* changes the rows appends one row and counts the paper as added
SaveStepsCounted ==
    /\ (ingest.pc = "loop" /\ ingest.i <= Len(ingest.papers) /\ AlreadyPresent)
          => (ingest'.stats = [ingest.stats EXCEPT !.skipped = @ + 1] /\ db' = db)
    /\ (ingest'.stats.skipped > ingest.stats.skipped) => (db' = db)
    /\ (db' # db)
          => /\ ingest'.stats = [ingest.stats EXCEPT !.added = @ + 1]
             /\ Len(db'.papers) = Len(db.papers) + 1
             /\ SubSeq(db'.papers, 1, Len(db.papers)) = db.papers

\* C28: through any runs of save_to_database and save_papers_to_db, in any
\* order and with any lists, from a store with no title twice: no two
\* records share a title and no two share title, venue and year; a paper
\* the store has is counted as skipped and the store stays as it is; and
\* when a run returns, added + skipped + errors is the number of papers of
\* its list.
C28_IngestionKeepsUniqueness ==
    /\ [](TitlesUnique /\ RecordsUnique)
    /\ [](ingest.pc = "loop" => StatsSum(ingest.stats) = ingest.i - 1)
    /\ [](ingest.pc = "done" => StatsSum(ingest.stats) = Len(ingest.papers))
    /\ [][SaveStepsCounted]_vars

\* a second run, by the other function, has met the title the first run
\* saved at another venue: nothing added, one error, one paper skipped
C28_Witness ==
    /\ ingest.pc = "done"
    /\ ingest.runs = 2
    /\ ingest.path = SAVE_PAPERS_TO_DB
    /\ ingest.papers = <<PaperDict(T_A, V_SP, IntParam(2023)),
                         PaperDict(T_A, V_CCS, IntParam(2023))>>
    /\ ingest.stats = [added |-> 0, skipped |-> 1, errors |-> 1]
    /\ Len(db.papers) = 1
    /\ db.papers[1].conference = <<"C","C","S">>

====
